---- MODULE Spec2Model ----
(***************************************************************************)
(* Model of the analytics computation engine of the fleet tracking         *)
(* backend: src/backend/src/services/analytics/utils/dataProcessing.py,    *)
(* with the storage model (models/analyticsModel.py) and the fleet         *)
(* endpoint of the controller (controllers/analyticsController.py).        *)
(*                                                                         *)
(* Each public function is a small state machine: Init is the moment of    *)
(* the call (arguments drawn from bounded sets), one action per statement  *)
(* group of the function body, and a final state that holds either the     *)
(* returned value or the exception that left the function.                 *)
(*                                                                         *)
(* Numbers.  The code works on float64.  The model keeps every quantity    *)
(* exact: an integer, a normalised fraction, or one of the IEEE specials   *)
(* NaN / +inf / -inf.  An absolute z-score |z| is irrational in general,   *)
(* so it is held as the exact fraction z^2 (|z| > t  <=>  z^2 > t^2 for    *)
(* t >= 0, and max |z| is the entry with the greatest z^2).                *)
(***************************************************************************)
EXTENDS Integers, Sequences, FiniteSets, TLC

VARIABLES
    pc,                 \* position inside the function being executed
    ret,                \* outcome: nothing yet, a returned value, or a raised exception
    operational_data,   \* detect_anomalies: argument (DataFrame)
    threshold,          \* detect_anomalies: argument
    z_scores,           \* detect_anomalies: local DataFrame of |z|
    anomalies,          \* detect_anomalies: local DataFrame being built
    location_arg,       \* process_location_data: the caller's DataFrame
    calculation_options,\* process_location_data: argument (dict)
    location_data,      \* process_location_data: the local name location_data
    location_is_arg,    \* process_location_data: location_data still names the caller's frame
    sort_outcome,       \* the order in which this build's quicksort leaves the rows of the batch
    distances,          \* process_location_data: local ndarray
    fleet_data,         \* calculate_fleet_metrics: argument (DataFrame)
    metric_type,        \* calculate_fleet_metrics: argument
    aggregation_period, \* calculate_fleet_metrics: argument
    metrics,            \* calculate_fleet_metrics: local dict of statistics
    delivery_data,      \* analyze_delivery_efficiency: argument (DataFrame)
    efficiency_parameters, \* analyze_delivery_efficiency: argument (dict)
    delivery_stats,     \* analyze_delivery_efficiency: local dict
    route_efficiency,   \* analyze_delivery_efficiency: local dict
    scores,             \* analyze_delivery_efficiency: local DataFrame of z-scores
    numpy_version,      \* the numpy the service runs on (decides np.mean of a ragged list)
    first_ret,          \* outcome of the first call, once the same call is made again
    metrics_collection, \* AnalyticsModel: documents of the fleet_metrics collection, in insertion order
    query,              \* get_metrics_by_vehicle: the query built from its arguments
    controller_pc,      \* controller: position inside the endpoint
    time_range,         \* get_fleet_analytics: argument (dict)
    requested_metrics,  \* get_fleet_analytics: argument metrics (list or None)
    fleet_performance,  \* get_fleet_analytics: what get_fleet_performance returned
    response,           \* controller: the JSONResponse or the HTTPException
    request             \* controller: the endpoint called and its own arguments

locVars == <<location_arg, calculation_options, location_data, distances,
             location_is_arg, sort_outcome>>

fleetVars == <<fleet_data, metric_type, aggregation_period, metrics>>

effVars == <<delivery_data, efficiency_parameters, delivery_stats,
             route_efficiency, scores, numpy_version>>

serviceVars == <<metrics_collection, query, controller_pc, time_range,
                 requested_metrics, fleet_performance, response, request>>

vars == <<pc, ret, operational_data, threshold, z_scores, anomalies,
          locVars, fleetVars, effVars, first_ret, serviceVars>>

anomVars == <<operational_data, threshold, z_scores, anomalies>>

\* Value of a variable that the function under execution does not own.
Unused == <<>>

AnomalyIdle ==
    operational_data = Unused /\ threshold = Unused /\ z_scores = Unused /\ anomalies = Unused

LocationIdle ==
    /\ location_arg = Unused /\ calculation_options = Unused
    /\ location_data = Unused /\ distances = Unused
    /\ location_is_arg = Unused /\ sort_outcome = Unused

FleetIdle ==
    /\ fleet_data = Unused /\ metric_type = Unused
    /\ aggregation_period = Unused /\ metrics = Unused

ServiceIdle ==
    /\ metrics_collection = Unused /\ query = Unused
    /\ controller_pc = Unused /\ time_range = Unused
    /\ requested_metrics = Unused /\ fleet_performance = Unused
    /\ response = Unused /\ request = Unused

EfficiencyIdle ==
    /\ delivery_data = Unused /\ efficiency_parameters = Unused
    /\ delivery_stats = Unused /\ route_efficiency = Unused
    /\ scores = Unused /\ numpy_version = Unused

----------------------------------------------------------------------------
(* Bounds of the exploration *)

\* Largest number of rows of a generated table (detect_anomalies).
MaxRows == 3

\* Largest number of samples of a generated location batch.
MaxSamples == 3

\* Largest number of rows of a generated fleet table.
MaxFleetRows == 3

\* Largest number of records of a generated delivery batch.
MaxDeliveries == 2

\* Largest number of rows, and of delivery records, of the inputs with
\* which a call is made twice.
MaxEngineRows == 2

MaxEngineDeliveries == 1

----------------------------------------------------------------------------
(* Exact arithmetic *)

RECURSIVE GCD(_, _)
GCD(a, b) == IF b = 0 THEN a ELSE GCD(b, a % b)

Abs(x) == IF x < 0 THEN -x ELSE x

\* A float64 value: NaN, or the exact fraction num/den (den > 0, lowest terms).
NaN == [nan |-> TRUE, num |-> 0, den |-> 1]

Frac(n, d) ==
    LET g == GCD(Abs(n), Abs(d))
        s == IF d < 0 THEN -1 ELSE 1
    IN  [nan |-> FALSE, num |-> s * (n \div g), den |-> s * (d \div g)]

IsNaN(x) == x.nan

Zero == Frac(0, 1)

\* +inf and -inf are held as 1/0 and -1/0.
Inf(sign) == [nan |-> FALSE, num |-> sign, den |-> 0]

IsFinite(x) == ~x.nan /\ x.den # 0

\* Float division of finite values: x/0 is +-inf, 0/0 is NaN, no exception.
FDiv(x, y) ==
    IF x.nan \/ y.nan THEN NaN
    ELSE IF y.num = 0 THEN (IF x.num = 0 THEN NaN
                            ELSE Inf(IF x.num > 0 THEN 1 ELSE -1))
    ELSE Frac(x.num * y.den, x.den * y.num)

FMul(x, y) ==
    IF x.nan \/ y.nan THEN NaN
    ELSE IF x.den = 0 \/ y.den = 0
         THEN (IF x.num = 0 \/ y.num = 0 THEN NaN
               ELSE Inf(IF (x.num > 0) = (y.num > 0) THEN 1 ELSE -1))
    ELSE Frac(x.num * y.num, x.den * y.den)

FAdd(x, y) ==
    IF x.nan \/ y.nan THEN NaN
    ELSE IF x.den = 0 /\ y.den = 0 THEN (IF x.num = y.num THEN x ELSE NaN)
    ELSE Frac(x.num * y.den + y.num * x.den, x.den * y.den)

FSub(x, y) ==
    IF x.nan \/ y.nan THEN NaN
    ELSE Frac(x.num * y.den - y.num * x.den, x.den * y.den)

\* x > y on floats: every comparison with NaN is False.
FGt(x, y) == ~x.nan /\ ~y.nan /\ x.num * y.den > y.num * x.den

RECURSIVE SeqSum(_)
SeqSum(s) == IF s = <<>> THEN 0 ELSE Head(s) + SeqSum(Tail(s))

SeqSumSq(s) == SeqSum([i \in 1..Len(s) |-> s[i] * s[i]])

----------------------------------------------------------------------------
(* scipy.stats.zscore (scipy 1.10, ddof = 0), as used at lines 71, 168-170, 209 *)

\* n^2 * population variance of the column; 0 exactly when the column is constant.
ZDen(col) == Len(col) * SeqSumSq(col) - SeqSum(col) * SeqSum(col)

\* zmap marks a column whose values all equal its first value.
IsConst(col) == \A i \in 1..Len(col) : col[i] = col[1]

\* z^2 of entry i.  zmap sets std to 1 for a constant column and then
\* overwrites every output of that column with NaN.
ZScoreSq(col, i) ==
    IF IsConst(col) THEN NaN
    ELSE LET d == Len(col) * col[i] - SeqSum(col)
         IN  Frac(d * d, ZDen(col))

\* np.abs(stats.zscore(column)): one |z| (held as z^2) per row.
AbsZScore(col) == [i \in 1..Len(col) |-> ZScoreSq(col, i)]

\* z-scores do not change when a column is multiplied by a positive factor.
\* A column of finite fractions is brought to small integers first (common
\* denominator, then division by the common divisor) to keep the products
\* within the checker's integers.
RECURSIVE SeqLCM(_)
SeqLCM(s) ==
    IF s = <<>> THEN 1
    ELSE LET r == SeqLCM(Tail(s)) IN (Head(s) * r) \div GCD(Head(s), r)

RECURSIVE SeqGCD(_)
SeqGCD(s) == IF s = <<>> THEN 0 ELSE GCD(Abs(Head(s)), SeqGCD(Tail(s)))

ScaleToInts(col) ==
    LET l == SeqLCM([i \in 1..Len(col) |-> col[i].den])
        ints == [i \in 1..Len(col) |-> col[i].num * (l \div col[i].den)]
        g == SeqGCD(ints)
    IN  IF g = 0 THEN ints ELSE [i \in 1..Len(col) |-> ints[i] \div g]

\* np.abs(stats.zscore(column)) of a float column.
AbsZScoreOfFloats(col) == AbsZScore(ScaleToInts(col))

\* |z| < t, the retention test of line 72.  NaN < t is False.
Below(zsq, t) == ~zsq.nan /\ t > 0 /\ zsq.num < t * t * zsq.den

\* |z| > t, with |z| held as z^2.  NaN > t is False.
ExceedsOrEqual(zsq, t) == ~zsq.nan /\ (t < 0 \/ zsq.num >= t * t * zsq.den)

Exceeds(zsq, t) == ~zsq.nan /\ (t < 0 \/ zsq.num > t * t * zsq.den)

----------------------------------------------------------------------------
(* DataFrames *)

\* A DataFrame is [index, columns, data]: the row labels in row order, the
\* column names in column order, and one value sequence per column.
ColSet(columns) == {columns[k] : k \in 1..Len(columns)}

NRows(df) == Len(df.index)

\* Positions (1-based) of the rows of df that carry label l.
PosOfLabel(df, l) == {p \in 1..NRows(df) : df.index[p] = l}

\* df[mask] with a positional boolean mask: the rows whose mask entry is True.
RECURSIVE TruePositions(_, _)
TruePositions(mask, from) ==
    IF from > Len(mask) THEN <<>>
    ELSE IF mask[from] THEN <<from>> \o TruePositions(mask, from + 1)
         ELSE TruePositions(mask, from + 1)

Take(s, positions) == [j \in 1..Len(positions) |-> s[positions[j]]]

FilterRows(df, mask) ==
    LET keep == TruePositions(mask, 1)
    IN  [index   |-> Take(df.index, keep),
         columns |-> df.columns,
         data    |-> [c \in ColSet(df.columns) |-> Take(df.data[c], keep)]]

\* The outcome of a call: nothing yet, an exception on its way to the except
\* clause, the returned value, or the exception that left the function.
NoResult == [kind |-> "none"]
\* line is the source line that raised.
Pending(exc, line) == [kind |-> "pending", type |-> exc, line |-> line]
Returned(v) == [kind |-> "return", value |-> v]
Raised(t, m) == [kind |-> "raise", type |-> t, msg |-> m]

----------------------------------------------------------------------------
(* detect_anomalies, lines 191-227, and _categorize_anomalies, lines 314-323 *)

\* Values a generated numeric cell can take.
CellValues == {0, 1, 3}

\* Numeric column lists of a generated table (select_dtypes keeps their order).
ColumnLists == {<<>>, <<"speed">>, <<"speed", "fuel">>}

\* Row labels of a generated table of n rows: the default RangeIndex, the
\* same labels in reverse order (a table sorted descending), and labels
\* 1..n (a slice df.iloc[1:] of a longer table).
RowIndexes(n) ==
    { [i \in 1..n |-> i - 1], [i \in 1..n |-> n - i], [i \in 1..n |-> i] }

\* The table of n rows with the row labels idx and the numeric columns cols,
\* its cells listed column by column in the sequence cells.
GeneratedTable(n, cols, idx, cells) ==
    [index |-> idx, columns |-> cols,
     data |-> [c \in ColSet(cols) |->
                 LET k == CHOOSE j \in 1..Len(cols) : cols[j] = c
                 IN  [i \in 1..n |-> cells[(k - 1) * n + i]]]]

\* The table of the anomaly-symmetry scenario: ten rows, one column, the
\* value 1000 in row p and 1 in the nine others.
SymmetryTable(p, idx) ==
    [index |-> idx, columns |-> <<"speed">>,
     data |-> [c \in {"speed"} |-> [i \in 1..10 |-> IF i = p THEN 1000 ELSE 1]]]

SymmetryTables == {SymmetryTable(p, idx) : p \in 1..10, idx \in RowIndexes(10)}

IsSymmetryTable(df) == df \in SymmetryTables

\* Thresholds tried on generated tables.
Thresholds == {0, 1}

\* (z_scores > threshold).any(axis=1), one entry per row of z_scores.
AnyExceeds(z, t) ==
    [i \in 1..NRows(z) |-> \E c \in ColSet(z.columns) : Exceeds(z.data[c][i], t)]

\* Lines 205-209: z_scores starts as an empty DataFrame and takes the index
\* of the first column assigned to it (zscore of a Series is a Series with
\* the same labels); with no numeric column it stays empty.
ZScoresOf(df) ==
    [index   |-> IF df.columns = <<>> THEN <<>> ELSE df.index,
     columns |-> df.columns,
     data    |-> [c \in ColSet(df.columns) |-> AbsZScore(df.data[c])]]

\* DataFrame.max(axis=1), skipna: the greatest non-NaN entry of row i.
RowMin(z, i) ==
    LET vals == {z.data[c][i] : c \in ColSet(z.columns)} \ {NaN}
    IN  IF vals = {} THEN NaN
        ELSE CHOOSE m \in vals : \A o \in vals : ~FGt(m, o)

RowMax(z, i) ==
    LET vals == {z.data[c][i] : c \in ColSet(z.columns)} \ {NaN}
    IN  IF vals = {} THEN NaN
        ELSE CHOOSE m \in vals : \A o \in vals : ~FGt(o, m)

\* _categorize_anomalies: one category per row of z_scores, in row order,
\* returned as pd.Series(categories), i.e. labelled 0..n-1.
Normal == [kind |-> "Normal", metrics |-> <<>>]
Missing == [kind |-> "NaN", metrics |-> <<>>]

AffectedMetrics(z, i, t) == SelectSeq(z.columns, LAMBDA c : Exceeds(z.data[c][i], t))

CategoryOfRow(z, i, t) ==
    IF \E c \in ColSet(z.columns) : Exceeds(z.data[c][i], t)
    THEN [kind |-> "Anomaly", metrics |-> AffectedMetrics(z, i, t)]
    ELSE Normal

_categorize_anomalies(z, t) == [i \in 1..NRows(z) |-> CategoryOfRow(z, i, t)]

\* frame[col] = pd.Series(values): the Series is labelled 0..len-1 and the
\* assignment aligns on labels; a row whose label the Series lacks gets NaN.
AssignRangeSeries(index, values) ==
    [j \in 1..Len(index) |->
        IF index[j] >= 0 /\ index[j] < Len(values)
        THEN values[index[j] + 1] ELSE Missing]

InitAnomalyOf(maxrows) ==
    /\ pc = "zscores"
    /\ ret = NoResult
    /\ first_ret = NoResult /\ ServiceIdle
    /\ \/ /\ \E n \in 1..maxrows : \E cols \in ColumnLists :
                \E idx \in RowIndexes(n) : \E cells \in [1..(n * Len(cols)) -> CellValues] :
                    operational_data = GeneratedTable(n, cols, idx, cells)
          /\ threshold \in Thresholds
       \/ operational_data \in SymmetryTables /\ threshold = 3
    /\ z_scores = Unused
    /\ anomalies = Unused
    /\ LocationIdle /\ FleetIdle /\ EfficiencyIdle

InitAnomaly == InitAnomalyOf(MaxRows)

\* Lines 205-209.
ComputeZScores ==
    /\ pc = "zscores"
    /\ z_scores' = ZScoresOf(operational_data)
    /\ pc' = "select"
    /\ UNCHANGED <<ret, operational_data, threshold, anomalies, locVars, fleetVars, effVars>>
    /\ UNCHANGED <<first_ret, serviceVars>>

\* Lines 212-214: boolean-Series indexing.  The mask must be alignable with
\* the table's index; the mask of an empty z_scores has no labels at all.
SelectAnomalies ==
    /\ pc = "select"
    /\ IF z_scores.index = operational_data.index
       THEN /\ anomalies' = FilterRows(operational_data, AnyExceeds(z_scores, threshold))
            /\ pc' = "confidence"
            /\ ret' = ret
       ELSE /\ anomalies' = anomalies
            /\ pc' = "except"
            /\ ret' = Pending("IndexingError", 212)
    /\ UNCHANGED <<operational_data, threshold, z_scores, locVars, fleetVars, effVars>>
    /\ UNCHANGED <<first_ret, serviceVars>>

\* Lines 217-219: the row maxima of the selected z_scores rows carry the
\* same labels, in the same order, as anomalies.
ConfidenceScores(z, t) ==
    LET keep == TruePositions(AnyExceeds(z, t), 1)
    IN  [j \in 1..Len(keep) |-> RowMax(z, keep[j])]

AssignConfidence ==
    /\ pc = "confidence"
    /\ anomalies' = [index |-> anomalies.index, columns |-> anomalies.columns,
                     data |-> anomalies.data,
                     confidence_score |-> ConfidenceScores(z_scores, threshold)]
    /\ pc' = "categorise"
    /\ UNCHANGED <<ret, operational_data, threshold, z_scores, locVars, fleetVars, effVars>>
    /\ UNCHANGED <<first_ret, serviceVars>>

\* Line 222.
AssignAnomalyType ==
    /\ pc = "categorise"
    /\ anomalies' = [index |-> anomalies.index, columns |-> anomalies.columns,
                     data |-> anomalies.data,
                     confidence_score |-> anomalies.confidence_score,
                     anomaly_type |->
                        AssignRangeSeries(anomalies.index,
                                          _categorize_anomalies(z_scores, threshold))]
    /\ pc' = "return"
    /\ UNCHANGED <<ret, operational_data, threshold, z_scores, locVars, fleetVars, effVars>>
    /\ UNCHANGED <<first_ret, serviceVars>>

\* Line 224.
ReturnAnomalies ==
    /\ pc = "return" /\ operational_data # Unused
    /\ ret' = Returned(anomalies)
    /\ pc' = "done"
    /\ UNCHANGED <<anomVars, locVars, fleetVars, effVars>>
    /\ UNCHANGED <<first_ret, serviceVars>>

\* Lines 226-227.
RaiseAnomalies ==
    /\ pc = "except" /\ operational_data # Unused
    /\ ret' = Raised("ValueError", "Error detecting anomalies")
    /\ pc' = "done"
    /\ UNCHANGED <<anomVars, locVars, fleetVars, effVars>>
    /\ UNCHANGED <<first_ret, serviceVars>>

NextAnomaly ==
    \/ ComputeZScores
    \/ SelectAnomalies
    \/ AssignConfidence
    \/ AssignAnomalyType
    \/ ReturnAnomalies
    \/ RaiseAnomalies

SpecAnomaly == InitAnomaly /\ [][NextAnomaly]_vars

----------------------------------------------------------------------------
(* Properties of detect_anomalies *)

\* The rows detect_anomalies handed back (none when it raised).
ReturnedIndex == IF ret.kind = "return" THEN ret.value.index ELSE <<>>

\* Position in the input table of the row labelled l (labels are distinct).
InputPos(l) == CHOOSE p \in 1..NRows(operational_data) : operational_data.index[p] = l

\* The absolute z-scores of input row p, one per numeric column, NaN left out.
RowZScores(p) ==
    {ZScoreSq(operational_data.data[c], p) : c \in ColSet(operational_data.columns)} \ {NaN}

RowHasExceedance(p) == \E zs \in RowZScores(p) : zs.num > threshold * threshold * zs.den

\* C2 (as claimed): a row is returned iff one of its absolute z-scores is
\* strictly above the threshold, and no returned row is categorised "Normal"
\* or left without a category, whatever the row labels of the input.
C2_ReturnsExactlyExceedingRowsNeverNormal ==
    pc = "done" =>
        /\ \A p \in 1..NRows(operational_data) :
              RowHasExceedance(p) <=>
                  \E j \in 1..Len(ReturnedIndex) :
                      ReturnedIndex[j] = operational_data.index[p]
        /\ \A j \in 1..Len(ReturnedIndex) : ret.value.anomaly_type[j].kind = "Anomaly"

\* C3: the confidence_score of every returned row is one of that row's own
\* absolute z-scores and none of the row's z-scores is greater: it is the
\* maximum over the numeric columns, not an aggregate such as their sum.
C3_ConfidenceIsRowMaximum ==
    (pc = "done" /\ ret.kind = "return") =>
        \A j \in 1..Len(ret.value.index) :
            LET p == InputPos(ret.value.index[j])
                score == ret.value.confidence_score[j]
            IN  /\ score \in RowZScores(p)
                /\ \A o \in RowZScores(p) : ~FGt(o, score)

\* A returned row whose columns have different z-scores.
C3_Witness ==
    /\ pc = "done"
    /\ ret.kind = "return"
    /\ \E j \in 1..Len(ret.value.index) :
          Cardinality(RowZScores(InputPos(ret.value.index[j]))) >= 2

\* The ten-row scenario has been run to completion with threshold 3.
SymmetryDone == pc = "done" /\ IsSymmetryTable(operational_data) /\ threshold = 3

\* Position of the row that holds 1000.
SymmetryOutlier == CHOOSE p \in 1..10 : operational_data.data["speed"][p] = 1000

\* C4 (as claimed): on the ten-row table with one 1000 among nine 1,
\* threshold 3 yields exactly one record, the 1000 row, typed by its column.
C4_SymmetryReturnsTheOutlier ==
    SymmetryDone =>
        /\ ret.kind = "return"
        /\ ret.value.index = <<operational_data.index[SymmetryOutlier]>>
        /\ ret.value.data["speed"] = <<1000>>
        /\ ret.value.anomaly_type[1].kind = "Anomaly"
        /\ ret.value.anomaly_type[1].metrics = <<"speed">>

\* C4 (amended): on that table threshold 3 yields no record at all, because
\* the z-score of the 1000 row is exactly 3 and the comparison is strict.
C4_SymmetryReturnsNoRecord ==
    SymmetryDone => ret.kind = "return" /\ ret.value.index = <<>>

C4_Witness ==
    /\ SymmetryDone
    /\ z_scores.data["speed"][SymmetryOutlier] = Frac(9, 1)

\* C5 (as claimed): every row of a constant column has z-score 0, and the
\* function does not fail on a table that has such a column.
C5_ConstantColumnScoresZero ==
    /\ pc \notin {"zscores"} =>
          \A c \in ColSet(z_scores.columns) :
              IsConst(operational_data.data[c]) =>
                  \A i \in 1..NRows(z_scores) : z_scores.data[c][i] = Frac(0, 1)
    /\ (pc = "done" /\ operational_data.columns # <<>>) => ret.kind = "return"

----------------------------------------------------------------------------
(* process_location_data, lines 35-86 *)

\* A location DataFrame is [columns, datetime, rows]: the set of column
\* names, whether the timestamp column has a datetime64 dtype, and the rows
\* in row order.  A row is a record of its cells plus idx, its row label.
\* Timestamps are seconds since an epoch.
RequiredColumns == {"vehicle_id", "timestamp", "latitude", "longitude"}

VehicleIds == {"v1", "v2"}

Timestamps == {0, 3600, 7200}

\* Positions in degrees.  The two points are 5 degrees apart, so that
\* np.sqrt of the squared displacement is exact.
Points == {<<0, 0>>, <<3, 4>>}

Sample(i, v, t, pt) ==
    [idx |-> i, vehicle_id |-> v, timestamp |-> t, latitude |-> pt[1], longitude |-> pt[2]]

\* The vehicles are interchangeable: the first sample is always of "v1".
SamplesOf(c) == [i \in 1..Len(c) |-> Sample(i - 1, c[i][1], c[i][2], c[i][3])]

SampleRows(n) ==
    { SamplesOf(c) :
        c \in { d \in [1..n -> VehicleIds \X Timestamps \X Points] :
                   n > 0 => d[1][1] = "v1" } }

\* A well-formed batch: the four required columns, timestamp of datetime dtype.
CompleteBatch(rows) == [columns |-> RequiredColumns, datetime |-> TRUE, rows |-> rows]

IsCompleteBatch(df) == df.columns = RequiredColumns /\ df.datetime

\* Batches that lack one required column, and batches whose timestamp
\* column is not datetime64 (strings, or an empty frame built without dtypes).
MalformedBatches ==
    { [columns |-> RequiredColumns \ {c}, datetime |-> TRUE, rows |-> r] :
        c \in RequiredColumns, r \in SampleRows(0) \cup SampleRows(1) }
    \cup
    { [columns |-> RequiredColumns, datetime |-> FALSE, rows |-> r] :
        r \in SampleRows(0) \cup {<<Sample(0, "v1", 0, <<0, 0>>)>>} }

\* dict.get(key, default)
DictGet(d, key, default) == IF key \in DOMAIN d THEN d[key] ELSE default

OptionDicts ==
    { <<>> } \cup { [remove_outliers |-> b] : b \in BOOLEAN }
    \cup { [remove_outliers |-> TRUE, outlier_z_threshold |-> 1] }

\* row with one more (or an overwritten) column
WithCol(row, name, v) == (name :> v) @@ row

\* Line 49: sort_values('timestamp') with the default kind='quicksort',
\* which is not a stable sort: rows with equal timestamps may come out in
\* any order.  The result is a new frame; the caller's frame is untouched.
IsSortedByTimestamp(rows) ==
    \A i \in 1..(Len(rows) - 1) : rows[i].timestamp <= rows[i + 1].timestamp

RowOrders(n) == {f \in [1..n -> 1..n] : \A i, j \in 1..n : f[i] = f[j] => i = j}

SortValues(rows) ==
    { r \in { [i \in 1..Len(rows) |-> rows[f[i]]] : f \in RowOrders(Len(rows)) } :
        IsSortedByTimestamp(r) }

\* Position of the closest earlier row of the same vehicle, 0 when none.
PrevSameVehicle(rows, i) ==
    LET earlier == {j \in 1..(i - 1) : rows[j].vehicle_id = rows[i].vehicle_id}
    IN  IF earlier = {} THEN 0 ELSE CHOOSE j \in earlier : \A k \in earlier : k <= j

\* Line 52: groupby('vehicle_id')['timestamp'].diff().dt.total_seconds()
TimeDiff(rows, i) ==
    LET j == PrevSameVehicle(rows, i)
    IN  IF j = 0 THEN NaN ELSE Frac(rows[i].timestamp - rows[j].timestamp, 1)

\* Line 57: vehicle_id.shift() == vehicle_id, True where the row directly
\* above (whatever its vehicle's previous sample) has the same vehicle.
ShiftMask(rows) ==
    [i \in 1..Len(rows) |-> i > 1 /\ rows[i - 1].vehicle_id = rows[i].vehicle_id]

ISqrt(x) == CHOOSE r \in 0..x : r * r = x

\* Lines 58-60: displacement in degrees between row i and row i+1 of the
\* whole frame, times 111.32 km per degree; one value per adjacent pair.
KmPerDegreeX100 == 11132

PairDistances(rows) ==
    [i \in 1..(Len(rows) - 1) |->
        LET dlat == rows[i + 1].latitude - rows[i].latitude
            dlon == rows[i + 1].longitude - rows[i].longitude
        IN  Frac(ISqrt(dlat * dlat + dlon * dlon) * KmPerDegreeX100, 100)]

CountTrue(mask) == Len(TruePositions(mask, 1))

\* distances[mask] = values: numpy assigns the values in order to the True
\* positions; it needs as many values as True positions, or a single value.
MaskedAssignFits(mask, values) ==
    Len(values) = CountTrue(mask) \/ Len(values) = 1

MaskedAssign(zeros, mask, values) ==
    LET pos == TruePositions(mask, 1)
    IN  [i \in 1..Len(zeros) |->
            IF mask[i]
            THEN LET k == CHOOSE k \in 1..Len(pos) : pos[k] = i
                 IN  IF Len(values) = 1 THEN values[1] ELSE values[k]
            ELSE zeros[i]]

SecondsPerHour == 3600

\* Lines 63-67: np.where(time_diff > 0, distances / time_diff * 3600, 0)
SpeedUnguarded(dist, time_diff) == FMul(FDiv(dist, time_diff), Frac(SecondsPerHour, 1))

SpeedOf(dist, time_diff) ==
    IF FGt(time_diff, Zero)
    THEN FMul(FDiv(dist, time_diff), Frac(SecondsPerHour, 1))
    ELSE Zero

\* Line 72: the z-score bound of the outlier filter.
OutlierZ == 3

\* Lines 71-72: keep the rows whose |z| of speed, over the whole frame, is below 3.
OutlierMask(rows) ==
    LET z == AbsZScoreOfFloats([i \in 1..Len(rows) |-> rows[i].speed])
    IN  [i \in 1..Len(rows) |-> Below(z[i], OutlierZ)]

\* Lines 76-77: groupby('vehicle_id')['speed'].diff() / time_diff
Acceleration(rows, i) ==
    LET j == PrevSameVehicle(rows, i)
    IN  IF j = 0 THEN NaN
        ELSE FDiv(FSub(rows[i].speed, rows[j].speed), rows[i].time_diff)

OutputColumns == {"vehicle_id", "timestamp", "speed", "distance", "acceleration"}

\* Line 83: the five output columns (the row label stays with the row).
Project(row) == [c \in OutputColumns \cup {"idx"} |-> row[c]]

InitLocationOf(maxrows) ==
    /\ pc = "sort"
    /\ ret = NoResult
    /\ first_ret = NoResult /\ ServiceIdle
    /\ \/ \E n \in 0..maxrows : \E c \in [1..n -> VehicleIds \X Timestamps \X Points] :
             /\ n > 0 => c[1][1] = "v1"
             /\ location_arg = CompleteBatch(SamplesOf(c))
       \/ location_arg \in MalformedBatches
    /\ calculation_options \in OptionDicts
    /\ location_data = location_arg
    /\ location_is_arg = TRUE
    /\ sort_outcome \in SortValues(location_arg.rows)
    /\ distances = <<>>
    /\ AnomalyIdle /\ FleetIdle /\ EfficiencyIdle

\* A batch with a true outlier: one vehicle sampled once an hour that
\* stands still except for one jump of 5 degrees.  Only the jump has a
\* non-zero speed, so its |z| is sqrt(n - 1) > 3.
OutlierScenarioLen == 12

OutlierScenarioJump == 6

OutlierScenarioRows ==
    [i \in 1..OutlierScenarioLen |->
        Sample(i - 1, "v1", (i - 1) * SecondsPerHour,
               IF i < OutlierScenarioJump THEN <<0, 0>> ELSE <<3, 4>>)]

InitOutlierScenario ==
    /\ pc = "sort"
    /\ ret = NoResult
    /\ first_ret = NoResult /\ ServiceIdle
    /\ location_arg = CompleteBatch(OutlierScenarioRows)
    /\ calculation_options \in OptionDicts
    /\ location_data = location_arg
    /\ location_is_arg = TRUE
    /\ sort_outcome = location_arg.rows
    /\ distances = <<>>
    /\ AnomalyIdle /\ FleetIdle /\ EfficiencyIdle

InitLocation == InitLocationOf(MaxSamples) \/ InitOutlierScenario

\* A sort whose order of equal timestamps changes when the call is repeated.
SortedAnew(rows, outcome) ==
    IF first_ret = NoResult \/ Cardinality(SortValues(rows)) = 1 THEN outcome
    ELSE CHOOSE r \in SortValues(rows) : r # outcome

\* Line 49: the rows as this build's quicksort leaves them.  The sort is a
\* deterministic algorithm: the same rows come out in the same order
\* whenever the call is repeated.
SortedByBuild(rows, outcome) == outcome

\* Line 49 rebinds the local name to the frame sort_values returns, a new
\* object: from then on the name no longer refers to the caller's frame.
NamesCallerFrameKept(before) == before

NamesCallerFrameAfterSort(before) == FALSE

\* A column assignment writes into the object the local name refers to;
\* the caller's frame changes with it only while the name still refers to it.
WrittenThrough(caller, local) == IF location_is_arg THEN local ELSE caller

\* Line 49.
SortByTimestamp ==
    /\ pc = "sort"
    /\ IF "timestamp" \in location_data.columns
       THEN /\ location_data' =
                 [location_data EXCEPT !.rows = SortedByBuild(@, sort_outcome)]
            /\ location_is_arg' = NamesCallerFrameAfterSort(location_is_arg)
            /\ pc' = "time_diff"
            /\ ret' = ret
       ELSE /\ pc' = "except"
            /\ ret' = Pending("KeyError", 49)
            /\ location_data' = location_data
            /\ location_is_arg' = location_is_arg
    /\ UNCHANGED <<location_arg, calculation_options, distances, sort_outcome>>
    /\ UNCHANGED <<anomVars, fleetVars, effVars>>
    /\ UNCHANGED <<first_ret, serviceVars>>

\* Line 52.
ComputeTimeDiff ==
    /\ pc = "time_diff"
    /\ IF "vehicle_id" \notin location_data.columns
       THEN pc' = "except" /\ ret' = Pending("KeyError", 52) /\ location_data' = location_data
       ELSE IF ~location_data.datetime
       THEN pc' = "except" /\ ret' = Pending("AttributeError", 52) /\ location_data' = location_data
       ELSE /\ location_data' =
                 [location_data EXCEPT
                    !.columns = @ \cup {"time_diff"},
                    !.rows = [i \in 1..Len(@) |->
                                 WithCol(@[i], "time_diff", TimeDiff(@, i))]]
            /\ pc' = "distances"
            /\ ret' = ret
    /\ location_arg' = WrittenThrough(location_arg, location_data')
    /\ UNCHANGED <<calculation_options, distances, location_is_arg, sort_outcome>>
    /\ UNCHANGED <<anomVars, fleetVars, effVars>>
    /\ UNCHANGED <<first_ret, serviceVars>>

\* Lines 55-60.
ComputeDistances ==
    /\ pc = "distances"
    /\ LET rows == location_data.rows
           zeros == [i \in 1..Len(rows) |-> Zero]
       IN  IF ~({"latitude", "longitude"} \subseteq location_data.columns)
           THEN pc' = "except" /\ ret' = Pending("KeyError", 55) /\ distances' = distances
           ELSE IF ~MaskedAssignFits(ShiftMask(rows), PairDistances(rows))
           THEN pc' = "except" /\ ret' = Pending("ValueError", 58) /\ distances' = zeros
           ELSE /\ distances' = MaskedAssign(zeros, ShiftMask(rows), PairDistances(rows))
                /\ pc' = "speed"
                /\ ret' = ret
    /\ UNCHANGED <<location_arg, calculation_options, location_data, location_is_arg,
                   sort_outcome>>
    /\ UNCHANGED <<anomVars, fleetVars, effVars>>
    /\ UNCHANGED <<first_ret, serviceVars>>

\* Lines 63-67.
ComputeSpeed ==
    /\ pc = "speed"
    /\ location_data' =
          [location_data EXCEPT
             !.columns = @ \cup {"speed"},
             !.rows = [i \in 1..Len(@) |->
                          WithCol(@[i], "speed", SpeedOf(distances[i], @[i].time_diff))]]
    /\ pc' = "outliers"
    /\ location_arg' = WrittenThrough(location_arg, location_data')
    /\ UNCHANGED <<ret, calculation_options, distances, location_is_arg, sort_outcome>>
    /\ UNCHANGED <<anomVars, fleetVars, effVars>>
    /\ UNCHANGED <<first_ret, serviceVars>>

\* Lines 70-72.
RemoveOutliers ==
    /\ pc = "outliers"
    /\ location_data' =
          IF DictGet(calculation_options, "remove_outliers", TRUE)
          THEN [location_data EXCEPT
                  !.rows = Take(@, TruePositions(OutlierMask(@), 1))]
          ELSE location_data
    /\ location_is_arg' =
          IF DictGet(calculation_options, "remove_outliers", TRUE) THEN FALSE
          ELSE location_is_arg
    /\ pc' = "derived"
    /\ UNCHANGED <<ret, location_arg, calculation_options, distances, sort_outcome>>
    /\ UNCHANGED <<anomVars, fleetVars, effVars>>
    /\ UNCHANGED <<first_ret, serviceVars>>

\* Lines 75-77: the distance column is the whole distances array, which
\* must be as long as the (possibly filtered) frame.
ComputeDerived ==
    /\ pc = "derived"
    /\ IF Len(distances) # Len(location_data.rows)
       THEN pc' = "except" /\ ret' = Pending("ValueError", 75) /\ location_data' = location_data
       ELSE /\ location_data' =
                 [location_data EXCEPT
                    !.columns = @ \cup {"distance", "acceleration"},
                    !.rows = [i \in 1..Len(@) |->
                                 WithCol(WithCol(@[i], "distance", distances[i]),
                                         "acceleration", Acceleration(@, i))]]
            /\ pc' = "return"
            /\ ret' = ret
    /\ location_arg' = WrittenThrough(location_arg, location_data')
    /\ UNCHANGED <<calculation_options, distances, location_is_arg, sort_outcome>>
    /\ UNCHANGED <<anomVars, fleetVars, effVars>>
    /\ UNCHANGED <<first_ret, serviceVars>>

\* Lines 80-83 (the float32 cast changes precision only).
ReturnLocation ==
    /\ pc = "return" /\ location_arg # Unused
    /\ ret' = Returned([columns |-> OutputColumns,
                        rows |-> [i \in 1..Len(location_data.rows) |->
                                     Project(location_data.rows[i])]])
    /\ pc' = "done"
    /\ UNCHANGED locVars
    /\ UNCHANGED <<anomVars, fleetVars, effVars>>
    /\ UNCHANGED <<first_ret, serviceVars>>

\* Lines 85-86.
RaiseLocation ==
    /\ pc = "except" /\ location_arg # Unused
    /\ ret' = Raised("ValueError", "Error processing location data")
    /\ pc' = "done"
    /\ UNCHANGED locVars
    /\ UNCHANGED <<anomVars, fleetVars, effVars>>
    /\ UNCHANGED <<first_ret, serviceVars>>

NextLocation ==
    \/ SortByTimestamp
    \/ ComputeTimeDiff
    \/ ComputeDistances
    \/ ComputeSpeed
    \/ RemoveOutliers
    \/ ComputeDerived
    \/ ReturnLocation
    \/ RaiseLocation

SpecLocation == InitLocation /\ [][NextLocation]_vars

----------------------------------------------------------------------------
(* Properties of process_location_data *)

\* Displacement in km between two samples, from their coordinates.
KmBetween(a, b) ==
    LET dlat == a.latitude - b.latitude
        dlon == a.longitude - b.longitude
    IN  Frac(ISqrt(dlat * dlat + dlon * dlon) * 11132, 100)

\* The speed the rule of the claim gives row i: distance to the previous
\* sample of the same vehicle over the time since it, in km/h, when that
\* time is strictly positive, and 0 otherwise.
RuleSpeed(rows, i) ==
    LET j == PrevSameVehicle(rows, i)
    IN  IF j = 0 THEN Zero
        ELSE LET dt == rows[i].timestamp - rows[j].timestamp
                 km == KmBetween(rows[i], rows[j])
             IN  IF dt > 0 THEN Frac(km.num * 3600, km.den * dt) ELSE Zero

\* C6: once the speed column exists, every sample's speed is
\* distance / time_diff * 3600 when its time difference to the previous
\* sample of its vehicle is strictly positive and exactly 0 otherwise, and
\* the speed statement (lines 63-67) never raises.
C6_SpeedGuardsTimeDelta ==
    /\ pc = "outliers" =>
          \A i \in 1..Len(location_data.rows) :
              location_data.rows[i].speed = RuleSpeed(location_data.rows, i)
    /\ ret.kind = "pending" => ret.line \notin 63..67

\* A batch with a zero time delta has been processed to its return value
\* and the sample with the zero delta has speed 0.
C6_Witness ==
    /\ pc = "done"
    /\ ret.kind = "return"
    /\ \E i \in 1..Len(location_data.rows) :
          /\ location_data.rows[i].time_diff = Zero
          /\ ret.value.rows[i].speed = Zero
    /\ \E i \in 1..Len(location_data.rows) : FGt(ret.value.rows[i].speed, Zero)

\* Labels of the retained samples that have no earlier retained sample of
\* their vehicle.
FirstRetained ==
    {location_data.rows[i].idx :
        i \in {k \in 1..Len(location_data.rows) :
                  PrevSameVehicle(location_data.rows, k) = 0}}

\* C7 (as claimed): the output holds no row for the first retained sample
\* of a vehicle, and a batch of one sample gives an empty output, not an error.
C7_FirstSampleDropped ==
    /\ (pc = "done" /\ ret.kind = "return") =>
          \A j \in 1..Len(ret.value.rows) : ret.value.rows[j].idx \notin FirstRetained
    /\ (pc = "done" /\ IsCompleteBatch(location_arg) /\ Len(location_arg.rows) = 1) =>
          ret.kind = "return" /\ ret.value.rows = <<>>

\* C8 (as claimed): an empty batch, or one that lacks a required column,
\* ends in the data-processing error and never in a returned value.
C8_EmptyOrIncompleteRaises ==
    (pc = "done" /\ (location_arg.rows = <<>> \/ ~(RequiredColumns \subseteq location_arg.columns)))
        => ret = Raised("ValueError", "Error processing location data")

----------------------------------------------------------------------------
(* calculate_fleet_metrics, lines 88-132, with METRIC_TYPES and             *)
(* AGGREGATION_PERIODS, lines 18-33                                         *)

\* METRIC_TYPES.values()
METRIC_TYPES ==
    {"vehicle_speed", "distance_covered", "fuel_consumption", "idle_time", "delivery_time"}

\* AGGREGATION_PERIODS.values()
AGGREGATION_PERIODS == {"1H", "1D", "1W", "1M"}

\* metric_type arguments tried: the enumeration's values, one of its keys,
\* and the names the unit test and the controller pass.
MetricArgs == METRIC_TYPES \cup {"SPEED", "speed", "performance"}

\* aggregation_period arguments tried: the values, a key, an unlisted frequency.
PeriodArgs == AGGREGATION_PERIODS \cup {"DAILY", "1Y"}

\* A fleet DataFrame is [columns, rows]; a row is [vehicle_id, timestamp,
\* cell], where cell is the number the row holds in the metric column read
\* by the call.  Timestamps are seconds since Monday 2021-02-01T00:00 UTC
\* and stay within that February: Monday 01:00, Tuesday 01:00, Sunday the
\* 7th 12:00, Monday the 8th 01:00.
FleetTimestamps == {3600, 90000, 561600, 608400}

FleetCells == {1, 3}

\* Column sets of the generated tables: one named after the enumeration,
\* and the one the unit test builds.
FleetColumnSets ==
    { {"vehicle_id", "timestamp", "vehicle_speed", "fuel_consumption"},
      {"vehicle_id", "timestamp", "speed", "distance", "fuel_consumption"} }

FleetRows(n) ==
    { [i \in 1..n |-> [vehicle_id |-> c[i][1], timestamp |-> c[i][2], cell |-> c[i][3]]] :
        c \in { d \in [1..n -> VehicleIds \X FleetTimestamps \X FleetCells] :
                   n > 0 => d[1][1] = "v1" } }

\* The one-day scenario: three vehicles, each with one sample at every hour
\* of Monday 2021-02-01, 72 rows in all.  The first two vehicles alternate
\* between the values 3 and 1, the third one reports 3 throughout.
ScenarioVehicles == <<"v1", "v2", "v3">>

HoursPerDay == 24

DailyScenarioRows ==
    [i \in 1..(Len(ScenarioVehicles) * HoursPerDay) |->
        [vehicle_id |-> ScenarioVehicles[((i - 1) \div HoursPerDay) + 1],
         timestamp  |-> ((i - 1) % HoursPerDay) * 3600,
         cell       |-> IF i > 2 * HoursPerDay THEN 3
                        ELSE IF i % 2 = 0 THEN 1 ELSE 3]]

DailyScenarioTable ==
    [columns |-> {"vehicle_id", "timestamp", "vehicle_speed", "fuel_consumption"},
     rows |-> DailyScenarioRows]

FleetTables(maxrows) ==
    UNION { { [columns |-> cs, rows |-> r] : cs \in FleetColumnSets, r \in FleetRows(n) } :
            n \in 0..maxrows }

SecondsPerDay == 86400

\* pd.Grouper(key='timestamp', freq=period): the label of the bin that holds
\* t.  Hourly and daily bins are closed on the left and labelled by their
\* start; weekly ('W' is W-SUN) and month-end ('M') bins are closed on the
\* right and labelled by their last day, a Sunday or the last of the month.
LastDayOfFebruary == 27

BinLabel(t, period) ==
    LET day == t \div SecondsPerDay
    IN  CASE period = "1H" -> (t \div SecondsPerHour) * SecondsPerHour
          [] period = "1D" -> day * SecondsPerDay
          [] period = "1W" -> (day + (6 - (day % 7))) * SecondsPerDay
          [] period = "1M" -> LastDayOfFebruary * SecondsPerDay

\* The (bin, vehicle) groups that hold at least one row, and their values
\* in row order.
GroupKeys(rows, period) ==
    {<<BinLabel(rows[i].timestamp, period), rows[i].vehicle_id>> : i \in 1..Len(rows)}

\* The values of a bin whatever the vehicle, in row order: what a grouping
\* by the Grouper alone collects.
GroupValuesOfBin(rows, period, key) ==
    LET cells == [i \in 1..Len(rows) |-> rows[i].cell]
    IN  Take(cells, TruePositions(
            [i \in 1..Len(rows) |-> BinLabel(rows[i].timestamp, period) = key[1]], 1))

GroupValues(rows, period, key) ==
    LET cells == [i \in 1..Len(rows) |-> rows[i].cell]
    IN  Take(cells, TruePositions(
            [i \in 1..Len(rows) |->
                <<BinLabel(rows[i].timestamp, period), rows[i].vehicle_id>> = key], 1))

\* Statistics of a non-empty sequence of floats.
RECURSIVE FSum(_)
FSum(s) == IF s = <<>> THEN Zero ELSE FAdd(Head(s), FSum(Tail(s)))

FMean(s) == FDiv(FSum(s), Frac(Len(s), 1))

FGeq(x, y) == ~x.nan /\ ~y.nan /\ x.num * y.den >= y.num * x.den

\* the k-th smallest entry
KthSmallest(s, k) ==
    CHOOSE v \in {s[i] : i \in 1..Len(s)} :
        /\ Cardinality({i \in 1..Len(s) : ~FGeq(s[i], v)}) < k
        /\ Cardinality({i \in 1..Len(s) : FGeq(v, s[i])}) >= k

FMedian(s) ==
    LET n == Len(s)
    IN  IF n % 2 = 1 THEN KthSmallest(s, (n + 1) \div 2)
        ELSE FDiv(FAdd(KthSmallest(s, n \div 2), KthSmallest(s, n \div 2 + 1)), Frac(2, 1))

FMin(s) == KthSmallest(s, 1)

FMax(s) == KthSmallest(s, Len(s))

\* Series.std() of a group is the sample standard deviation (ddof = 1):
\* NaN for a single value, otherwise sqrt of the variance below.
SampleVariance(ints) ==
    LET n == Len(ints)
    IN  IF n < 2 THEN NaN ELSE Frac(ZDen(ints), n * (n - 1))

ToFloats(ints) == [i \in 1..Len(ints) |-> Frac(ints[i], 1)]

\* A sequence without its NaN entries (the second-level mean skips them).
DropNaN(s) == SelectSeq(s, LAMBDA x : ~x.nan)

\* The list of the keys of one bin, ordered by vehicle id.
RECURSIVE SetToSeq(_)
SetToSeq(S) ==
    IF S = {} THEN <<>>
    ELSE LET v == CHOOSE x \in S : \A y \in S : (x = "v1") \/ (y # "v1")
         IN  <<v>> \o SetToSeq(S \ {v})

VehiclesOfBin(rows, period, b) ==
    SetToSeq({k[2] : k \in {g \in GroupKeys(rows, period) : g[1] = b}})

\* grouped.count().groupby(level=0).count(): the number of (bin, vehicle)
\* groups of the bin.
SampleCount(rows, period, b) ==
    Cardinality({i \in 1..Len(rows) : BinLabel(rows[i].timestamp, period) = b})

VehicleCount(rows, period, b) == Len(VehiclesOfBin(rows, period, b))

\* Lines 116-123: one dict per statistic, keyed by bin label.  The first
\* level is per (bin, vehicle) group, the second level per bin over its
\* vehicles.  std is the mean of square roots: it is held as the list of
\* the per-vehicle variances whose roots are averaged (NaN when none).
FleetStatistics(rows, period) ==
    LET bins == {k[1] : k \in GroupKeys(rows, period)}
        per(b, F(_)) ==
            LET vs == VehiclesOfBin(rows, period, b)
            IN  [j \in 1..Len(vs) |-> F(GroupValues(rows, period, <<b, vs[j]>>))]
        mean1(g) == FMean(ToFloats(g))
        median1(g) == FMedian(ToFloats(g))
        min1(g) == FMin(ToFloats(g))
        max1(g) == FMax(ToFloats(g))
        var1(g) == SampleVariance(g)
    IN  [mean   |-> [b \in bins |-> FMean(per(b, mean1))],
         median |-> [b \in bins |-> FMedian(per(b, median1))],
         std    |-> [b \in bins |->
                        IF DropNaN(per(b, var1)) = <<>> THEN [nan |-> TRUE, mean_of_sqrt |-> <<>>]
                        ELSE [nan |-> FALSE, mean_of_sqrt |-> DropNaN(per(b, var1))]],
         min    |-> [b \in bins |-> FMin(per(b, min1))],
         max    |-> [b \in bins |-> FMax(per(b, max1))],
         vehicle_count |-> [b \in bins |-> VehicleCount(rows, period, b)]]

\* Lines 104-107.
ValidMetricType(m) == m \in METRIC_TYPES

ValidAggregationPeriod(p) == p \in AGGREGATION_PERIODS

\* Tables of at most one row are tried with every argument pair; longer
\* tables with the calls that pass the validation and find their column.
InitFleetOf(maxrows) ==
    /\ pc = "validate"
    /\ ret = NoResult
    /\ first_ret = NoResult /\ ServiceIdle
    /\ \/ /\ fleet_data \in FleetTables(1)
          /\ metric_type \in MetricArgs
          /\ aggregation_period \in PeriodArgs
       \/ /\ \E n \in 2..maxrows : \E r \in FleetRows(n) :
                fleet_data = [columns |-> {"vehicle_id", "timestamp", "vehicle_speed",
                                           "fuel_consumption"},
                              rows |-> r]
          /\ metric_type = "vehicle_speed"
          /\ aggregation_period \in AGGREGATION_PERIODS
       \/ /\ fleet_data = DailyScenarioTable
          /\ metric_type = "vehicle_speed"
          /\ aggregation_period \in AGGREGATION_PERIODS
    /\ metrics = <<>>
    /\ AnomalyIdle /\ LocationIdle /\ EfficiencyIdle

InitFleet == InitFleetOf(MaxFleetRows)

\* Lines 103-107: both checks raise ValueError inside the try block.
ValidateFleetInputs ==
    /\ pc = "validate"
    /\ IF ~ValidMetricType(metric_type)
       THEN pc' = "except" /\ ret' = Pending("ValueError", 105)
       ELSE IF ~ValidAggregationPeriod(aggregation_period)
       THEN pc' = "except" /\ ret' = Pending("ValueError", 107)
       ELSE pc' = "aggregate" /\ ret' = ret
    /\ UNCHANGED fleetVars
    /\ UNCHANGED <<anomVars, locVars, effVars>>
    /\ UNCHANGED <<first_ret, serviceVars>>

\* Lines 109-123: selecting a column the table lacks raises KeyError.
AggregateFleet ==
    /\ pc = "aggregate"
    /\ IF metric_type \notin fleet_data.columns
       THEN pc' = "except" /\ ret' = Pending("KeyError", 113) /\ metrics' = metrics
       ELSE /\ metrics' = FleetStatistics(fleet_data.rows, aggregation_period)
            /\ pc' = "return"
            /\ ret' = ret
    /\ UNCHANGED <<fleet_data, metric_type, aggregation_period>>
    /\ UNCHANGED <<anomVars, locVars, effVars>>
    /\ UNCHANGED <<first_ret, serviceVars>>

\* Lines 125-129.
ReturnFleet ==
    /\ pc = "return" /\ fleet_data # Unused
    /\ ret' = Returned([aggregation_period |-> aggregation_period,
                        metric_type |-> metric_type,
                        statistics |-> metrics])
    /\ pc' = "done"
    /\ UNCHANGED fleetVars
    /\ UNCHANGED <<anomVars, locVars, effVars>>
    /\ UNCHANGED <<first_ret, serviceVars>>

\* str(e) of the exception raised at a line of the try block.
FleetErrorText(line) ==
    CASE line = 105 -> "Invalid metric type"
      [] line = 107 -> "Invalid aggregation period"
      [] line = 113 -> "Column not found"

\* Lines 131-132: whatever was raised, the validation errors included,
\* leaves as ValueError("Error calculating fleet metrics: ...").
RaiseFleet ==
    /\ pc = "except" /\ fleet_data # Unused
    /\ ret' = Raised("ValueError",
                     <<"Error calculating fleet metrics: ", FleetErrorText(ret.line)>>)
    /\ pc' = "done"
    /\ UNCHANGED fleetVars
    /\ UNCHANGED <<anomVars, locVars, effVars>>
    /\ UNCHANGED <<first_ret, serviceVars>>

NextFleet ==
    \/ ValidateFleetInputs
    \/ AggregateFleet
    \/ ReturnFleet
    \/ RaiseFleet

SpecFleet == InitFleet /\ [][NextFleet]_vars

----------------------------------------------------------------------------
(* Properties of calculate_fleet_metrics *)

FleetDone == pc = "done" /\ fleet_data # Unused

FleetArgsValid ==
    ValidMetricType(metric_type) /\ ValidAggregationPeriod(aggregation_period)

\* The exception type with which a failure of the data processing (a
\* column the table lacks, line 113) leaves the function.
FleetDataErrorType == "ValueError"

\* C9: every metric_type or aggregation_period outside its enumeration is
\* rejected before any grouping, with an exception whose type differs from
\* the type of a data-processing failure; values inside both enumerations
\* are never rejected by the validation.
C9_ValidationErrorDistinct ==
    FleetDone =>
        /\ ~FleetArgsValid =>
              /\ ret.kind = "raise"
              /\ metrics = <<>>
              /\ ret.type # FleetDataErrorType
        /\ FleetArgsValid =>
              \/ ret.kind = "return"
              \/ ret.msg[2] \notin {"Invalid metric type", "Invalid aggregation period"}

\* C10: for a table with the columns vehicle_id, timestamp and speed,
\* the call with metric_type 'speed' and aggregation_period '1D' returns a
\* dict with the keys aggregation_period, metric_type and statistics, the
\* last holding mean, median, std, min, max and vehicle_count.
C10_SpeedDailyReturnsStatistics ==
    ( /\ FleetDone
      /\ {"vehicle_id", "timestamp", "speed"} \subseteq fleet_data.columns
      /\ metric_type = "speed"
      /\ aggregation_period = "1D" )
    => /\ ret.kind = "return"
       /\ DOMAIN ret.value = {"aggregation_period", "metric_type", "statistics"}
       /\ DOMAIN ret.value.statistics =
             {"mean", "median", "std", "min", "max", "vehicle_count"}

\* The distinct vehicles with at least one input sample in bin b.
VehiclesSeenIn(b) ==
    {fleet_data.rows[i].vehicle_id :
        i \in {k \in 1..Len(fleet_data.rows) :
                  BinLabel(fleet_data.rows[k].timestamp, aggregation_period) = b}}

FleetReturned == FleetDone /\ ret.kind = "return"

\* C11: in a returned result, vehicle_count of every bucket is the number
\* of distinct vehicles with a sample in the bucket; for the one-day
\* scenario (3 vehicles, 24 hourly samples each) and the daily period the
\* result has exactly one bucket, with vehicle_count 3.
C11_VehicleCountIsDistinctVehicles ==
    FleetReturned =>
        LET counts == ret.value.statistics.vehicle_count
        IN  /\ \A b \in DOMAIN counts : counts[b] = Cardinality(VehiclesSeenIn(b))
            /\ (fleet_data = DailyScenarioTable /\ aggregation_period = "1D") =>
                  /\ Cardinality(DOMAIN counts) = 1
                  /\ \A b \in DOMAIN counts : counts[b] = 3

C11_Witness ==
    /\ FleetReturned
    /\ fleet_data = DailyScenarioTable
    /\ aggregation_period = "1D"
    /\ \E b \in DOMAIN ret.value.statistics.vehicle_count :
          /\ ret.value.statistics.vehicle_count[b] = 3
          /\ SampleCount(fleet_data.rows, aggregation_period, b) = 72

----------------------------------------------------------------------------
(* analyze_delivery_efficiency, lines 134-189, with                         *)
(* _generate_efficiency_recommendations, lines 297-312                      *)

\* The numpy the service runs on.  The module names numpy==1.24.0 (line 6)
\* without enforcing it; np.mean of the list of line 173, two floats and a
\* three-entry Series, raises ValueError from 1.24 on and builds an object
\* array before.
NumpyVersions == {"1.24.0", "1.23.5"}

RaggedListRaises(version) == version = "1.24.0"

ScoreColumns == {"delivery_time_score", "distance_score", "fuel_efficiency_score"}

ScoredFeature(c) ==
    CASE c = "delivery_time_score" -> "delivery_time"
      [] c = "distance_score" -> "distance"
      [] c = "fuel_efficiency_score" -> "fuel_consumption"

\* Values of the three scored features of a record (delivery_time,
\* distance, fuel_consumption): two records can agree on all, some or none.
ScoredValues == {<<10, 5, 1>>, <<20, 10, 2>>, <<10, 10, 2>>}

\* actual_distance and planned_distance of a record: ratio 0/0, 0, 1 and 10.
DistancePairs == {<<0, 0>>, <<0, 10>>, <<10, 10>>, <<100, 10>>}

DeliveryRecord(f, at, r, dp) ==
    [delivery_time |-> f[1], distance |-> f[2], fuel_consumption |-> f[3],
     actual_time |-> at, planned_time |-> 20, route_id |-> r, stop_count |-> 2,
     actual_distance |-> dp[1], planned_distance |-> dp[2]]

DeliveryRecords ==
    { DeliveryRecord(f, at, r, dp) :
        f \in ScoredValues, at \in {20, 40}, r \in {"r1", "r2"}, dp \in DistancePairs }

ParameterDicts == { <<>>, [target_on_time |-> 50, target_utilization |-> 150] }

Column(rows, name) == [i \in 1..Len(rows) |-> rows[i][name]]

\* Series.mean(): NaN entries are skipped, an empty Series gives NaN.
SeriesMean(s) == IF DropNaN(s) = <<>> THEN NaN ELSE FMean(DropNaN(s))

\* Series.std(): sample standard deviation, held as the variance under the root.
SeriesStd(ints) == [sqrt_of |-> SampleVariance(ints)]

\* (actual_time <= planned_time).mean() * 100
OnTimePercentage(rows) ==
    FMul(SeriesMean([i \in 1..Len(rows) |->
                       Frac(IF rows[i].actual_time <= rows[i].planned_time THEN 1 ELSE 0, 1)]),
         Frac(100, 1))

\* (actual_distance / planned_distance).mean() * 100
DistanceUtilization(rows) ==
    FMul(SeriesMean([i \in 1..Len(rows) |->
                       FDiv(Frac(rows[i].actual_distance, 1), Frac(rows[i].planned_distance, 1))]),
         Frac(100, 1))

\* groupby('route_id')['stop_count'].mean()
StopsPerRoute(rows) ==
    [r \in {rows[i].route_id : i \in 1..Len(rows)} |->
        SeriesMean(ToFloats(Take(Column(rows, "stop_count"),
            TruePositions([i \in 1..Len(rows) |-> rows[i].route_id = r], 1))))]

\* scores.mean() of one column: the mean of the signed z-scores
\* (n*x - sum) / sqrt(ZDen).  The numerators add up to 0, so the mean of a
\* column that is not constant is 0 whatever the root; a constant or empty
\* column is all NaN and its mean is NaN.
ZScoreMean(col) ==
    IF col = <<>> \/ IsConst(col) THEN NaN
    ELSE LET dsum == SeqSum([i \in 1..Len(col) |-> Len(col) * col[i] - SeqSum(col)])
         IN  IF dsum = 0 THEN Zero ELSE NaN

FAbs(x) == IF x.nan THEN NaN ELSE [nan |-> FALSE, num |-> Abs(x.num), den |-> x.den]

\* round(x, 2), ties to even; NaN and the infinities stay.
Round2(x) ==
    IF ~IsFinite(x) THEN x
    ELSE LET n == x.num * 100
             q == n \div x.den
             r == n % x.den
             up == (2 * r > x.den) \/ (2 * r = x.den /\ q % 2 = 1)
         IN  Frac(IF up THEN q + 1 ELSE q, 100)

\* Lines 173-177 on a numpy that accepts the ragged list: the mean of
\* [float, float, Series] is a Series with one entry per score column.
OverallEfficiency(stats, route, sc) ==
    [c \in ScoreColumns |->
        FDiv(FAdd(FAdd(FDiv(stats.on_time_percentage, Frac(100, 1)),
                       FDiv(route.distance_utilization, Frac(100, 1))),
                  FSub(Frac(1, 1), FAbs(sc[c]))),
             Frac(3, 1))]

\* x < y on floats: every comparison with NaN is False.
FLt(x, y) == FGt(y, x)

OnTimeAdvice == "Improve on-time delivery performance through better route optimization"

RouteAdvice == "Optimize route planning to reduce excess distance traveled"

DefaultTargetOnTime == 95

DefaultTargetUtilization == 90

\* x <= y on floats.
FLe(x, y) == FGeq(y, x)

RecommendationsAtOrBelow(stats, route, parameters) ==
    (IF FLe(stats.on_time_percentage,
            Frac(DictGet(parameters, "target_on_time", DefaultTargetOnTime), 1))
     THEN <<OnTimeAdvice>> ELSE <<>>)
    \o
    (IF FLe(route.distance_utilization,
            Frac(DictGet(parameters, "target_utilization", DefaultTargetUtilization), 1))
     THEN <<RouteAdvice>> ELSE <<>>)

_generate_efficiency_recommendations(stats, route, parameters) ==
    (IF FLt(stats.on_time_percentage,
            Frac(DictGet(parameters, "target_on_time", DefaultTargetOnTime), 1))
     THEN <<OnTimeAdvice>> ELSE <<>>)
    \o
    (IF FLt(route.distance_utilization,
            Frac(DictGet(parameters, "target_utilization", DefaultTargetUtilization), 1))
     THEN <<RouteAdvice>> ELSE <<>>)

InitEfficiencyOf(maxrows) ==
    /\ pc = "delivery_stats"
    /\ ret = NoResult
    /\ first_ret = NoResult /\ ServiceIdle
    /\ \E n \in 0..maxrows : \E q \in [1..n -> DeliveryRecords] :
          /\ n > 0 => q[1].route_id = "r1"
          /\ delivery_data = q
    /\ efficiency_parameters \in ParameterDicts
    /\ numpy_version \in NumpyVersions
    /\ delivery_stats = <<>>
    /\ route_efficiency = <<>>
    /\ scores = <<>>
    /\ AnomalyIdle /\ LocationIdle /\ FleetIdle

InitEfficiency == InitEfficiencyOf(MaxDeliveries)

\* Lines 149-155.
ComputeDeliveryStats ==
    /\ pc = "delivery_stats"
    /\ delivery_stats' =
          [avg_delivery_time |-> SeriesMean(ToFloats(Column(delivery_data, "delivery_time"))),
           std_delivery_time |-> SeriesStd(Column(delivery_data, "delivery_time")),
           on_time_percentage |-> OnTimePercentage(delivery_data)]
    /\ pc' = "route_efficiency"
    /\ UNCHANGED <<ret, delivery_data, efficiency_parameters, route_efficiency, scores,
                   numpy_version>>
    /\ UNCHANGED <<anomVars, locVars, fleetVars>>
    /\ UNCHANGED <<first_ret, serviceVars>>

\* Lines 158-164.
ComputeRouteEfficiency ==
    /\ pc = "route_efficiency"
    /\ route_efficiency' =
          [avg_distance_per_delivery |-> SeriesMean(ToFloats(Column(delivery_data, "distance"))),
           avg_stops_per_route |-> StopsPerRoute(delivery_data),
           distance_utilization |-> DistanceUtilization(delivery_data)]
    /\ pc' = "scores"
    /\ UNCHANGED <<ret, delivery_data, efficiency_parameters, delivery_stats, scores,
                   numpy_version>>
    /\ UNCHANGED <<anomVars, locVars, fleetVars>>
    /\ UNCHANGED <<first_ret, serviceVars>>

\* Lines 167-177: the z-score table is reduced to its column means, and the
\* ragged list is averaged or refused.
ComputeOverallEfficiency ==
    /\ pc = "scores"
    /\ IF RaggedListRaises(numpy_version)
       THEN /\ pc' = "except"
            /\ ret' = Pending("ValueError", 173)
            /\ scores' = [c \in ScoreColumns |->
                             ZScoreMean(Column(delivery_data, ScoredFeature(c)))]
       ELSE /\ pc' = "return"
            /\ ret' = ret
            /\ scores' = [c \in ScoreColumns |->
                             ZScoreMean(Column(delivery_data, ScoredFeature(c)))]
    /\ UNCHANGED <<delivery_data, efficiency_parameters, delivery_stats, route_efficiency,
                   numpy_version>>
    /\ UNCHANGED <<anomVars, locVars, fleetVars>>
    /\ UNCHANGED <<first_ret, serviceVars>>

\* Lines 179-186.
ReturnEfficiency ==
    /\ pc = "return" /\ delivery_data # Unused
    /\ ret' = Returned(
          [delivery_statistics |-> delivery_stats,
           route_efficiency |-> route_efficiency,
           overall_efficiency_score |->
               LET overall == OverallEfficiency(delivery_stats, route_efficiency, scores)
               IN  [c \in ScoreColumns |-> Round2(FMul(overall[c], Frac(100, 1)))],
           recommendations |->
               _generate_efficiency_recommendations(delivery_stats, route_efficiency,
                                                    efficiency_parameters)])
    /\ pc' = "done"
    /\ UNCHANGED effVars
    /\ UNCHANGED <<anomVars, locVars, fleetVars>>
    /\ UNCHANGED <<first_ret, serviceVars>>

\* Lines 188-189.
RaiseEfficiency ==
    /\ pc = "except" /\ delivery_data # Unused
    /\ ret' = Raised("ValueError", "Error analyzing delivery efficiency")
    /\ pc' = "done"
    /\ UNCHANGED effVars
    /\ UNCHANGED <<anomVars, locVars, fleetVars>>
    /\ UNCHANGED <<first_ret, serviceVars>>

NextEfficiency ==
    \/ ComputeDeliveryStats
    \/ ComputeRouteEfficiency
    \/ ComputeOverallEfficiency
    \/ ReturnEfficiency
    \/ RaiseEfficiency

SpecEfficiency == InitEfficiency /\ [][NextEfficiency]_vars

----------------------------------------------------------------------------
(* Properties of analyze_delivery_efficiency *)

EfficiencyReturned ==
    pc = "done" /\ delivery_data # Unused /\ ret.kind = "return"

InUnitPercent(x) == IsFinite(x) /\ x.num >= 0 /\ x.num <= 100 * x.den

OnTimeRecords == {i \in 1..Len(delivery_data) :
                    delivery_data[i].actual_time <= delivery_data[i].planned_time}

AllPlannedPositive == \A i \in 1..Len(delivery_data) : delivery_data[i].planned_distance > 0

RatioMeanTimes100 ==
    FMul(FMean([i \in 1..Len(delivery_data) |->
                  Frac(delivery_data[i].actual_distance, delivery_data[i].planned_distance)]),
         Frac(100, 1))

\* Every record is exactly on plan, in time and in (positive) distance.
AllOnPlan ==
    /\ Len(delivery_data) >= 1
    /\ \A i \in 1..Len(delivery_data) :
          /\ delivery_data[i].actual_time = delivery_data[i].planned_time
          /\ delivery_data[i].actual_distance = delivery_data[i].planned_distance
          /\ delivery_data[i].planned_distance > 0

TargetsAtMost100 ==
    /\ DictGet(efficiency_parameters, "target_on_time", DefaultTargetOnTime) <= 100
    /\ DictGet(efficiency_parameters, "target_utilization", DefaultTargetUtilization) <= 100

\* C12: a returned result reports on_time_percentage as 100 times the
\* fraction of records with actual_time <= planned_time and the distance
\* utilization as 100 times the mean of actual_distance/planned_distance;
\* a batch whose records are all exactly on plan returns a result with
\* on_time_percentage 100, distance utilization 100 and no recommendation.
C12_OnTimeAndUtilizationReported ==
    (pc = "done" /\ delivery_data # Unused) =>
        /\ (ret.kind = "return" /\ Len(delivery_data) >= 1) =>
              /\ ret.value.delivery_statistics.on_time_percentage =
                    Frac(100 * Cardinality(OnTimeRecords), Len(delivery_data))
              /\ AllPlannedPositive =>
                    ret.value.route_efficiency.distance_utilization = RatioMeanTimes100
        /\ (AllOnPlan /\ TargetsAtMost100) =>
              /\ ret.kind = "return"
              /\ ret.value.delivery_statistics.on_time_percentage = Frac(100, 1)
              /\ ret.value.route_efficiency.distance_utilization = Frac(100, 1)
              /\ ret.value.recommendations = <<>>

----------------------------------------------------------------------------
(* _generate_efficiency_recommendations, lines 297-312, called on its own   *)

\* on_time_percentage and distance_utilization values of the dicts passed
\* in: undefined, below, at and above the default and the supplied targets.
OnTimeValues == {NaN, Frac(0, 1), Frac(50, 1), Frac(95, 1), Frac(100, 1)}

UtilizationValues ==
    {NaN, Frac(0, 1), Frac(90, 1), Frac(100, 1), Frac(150, 1), Frac(1000, 1)}

TargetValues == {50, 150}

\* Parameter dicts with each target present or absent.
TargetDicts ==
    { <<>> }
    \cup { [target_on_time |-> a] : a \in TargetValues }
    \cup { [target_utilization |-> b] : b \in TargetValues }
    \cup { [target_on_time |-> a, target_utilization |-> b] :
             a \in TargetValues, b \in TargetValues }

InitRecommendations ==
    /\ pc = "recommend"
    /\ ret = NoResult
    /\ first_ret = NoResult /\ ServiceIdle
    /\ \E x \in OnTimeValues : delivery_stats = [on_time_percentage |-> x]
    /\ \E y \in UtilizationValues : route_efficiency = [distance_utilization |-> y]
    /\ efficiency_parameters \in TargetDicts
    /\ delivery_data = Unused /\ scores = Unused /\ numpy_version = Unused
    /\ AnomalyIdle /\ LocationIdle /\ FleetIdle

\* Lines 299-312.
GenerateRecommendations ==
    /\ pc = "recommend"
    /\ ret' = Returned(_generate_efficiency_recommendations(
                          delivery_stats, route_efficiency, efficiency_parameters))
    /\ pc' = "done"
    /\ UNCHANGED effVars
    /\ UNCHANGED <<anomVars, locVars, fleetVars>>
    /\ UNCHANGED <<first_ret, serviceVars>>

NextRecommendations == GenerateRecommendations

SpecRecommendations == InitRecommendations /\ [][NextRecommendations]_vars

RecommendationsDone == pc = "done" /\ delivery_data = Unused /\ delivery_stats # Unused

OnTimeBelowTarget ==
    LET x == delivery_stats.on_time_percentage
        t == DictGet(efficiency_parameters, "target_on_time", DefaultTargetOnTime)
    IN  ~x.nan /\ x.num < t * x.den

UtilizationBelowTarget ==
    LET y == route_efficiency.distance_utilization
        t == DictGet(efficiency_parameters, "target_utilization", DefaultTargetUtilization)
    IN  ~y.nan /\ y.den > 0 /\ y.num < t * y.den

\* C13: the recommendations hold the on-time advisory exactly when
\* on_time_percentage < target_on_time and the route-planning advisory
\* exactly when the distance utilization < target_utilization, the on-time
\* advisory first; the list is empty exactly when neither is below target.
C13_RecommendationsFollowTargets ==
    RecommendationsDone =>
        LET rec == ret.value
            has(a) == \E j \in 1..Len(rec) : rec[j] = a
        IN  /\ has(OnTimeAdvice) <=> OnTimeBelowTarget
            /\ has(RouteAdvice) <=> UtilizationBelowTarget
            /\ \A j \in 1..Len(rec) : rec[j] \in {OnTimeAdvice, RouteAdvice}
            /\ Len(rec) <= 2
            /\ (has(OnTimeAdvice) /\ has(RouteAdvice)) => rec[1] = OnTimeAdvice
            /\ (rec = <<>>) <=> (~OnTimeBelowTarget /\ ~UtilizationBelowTarget)

C13_Witness ==
    /\ RecommendationsDone
    /\ ret.value = <<OnTimeAdvice, RouteAdvice>>
    /\ "target_on_time" \in DOMAIN efficiency_parameters

----------------------------------------------------------------------------
(* The four functions of the module, each called and then called once more  *)
(* with the same arguments (lines 35-227).                                  *)

InitEngine ==
    \/ InitAnomalyOf(MaxEngineRows)
    \/ InitLocationOf(MaxEngineRows)
    \/ InitFleetOf(MaxEngineRows)
    \/ InitEfficiencyOf(MaxEngineDeliveries)

FirstCallDone == pc = "done" /\ first_ret = NoResult

\* detect_anomalies(operational_data, threshold) once more.
DetectAnomaliesAgain ==
    /\ FirstCallDone /\ operational_data # Unused
    /\ first_ret' = ret
    /\ UNCHANGED serviceVars
    /\ ret' = NoResult
    /\ pc' = "zscores"
    /\ z_scores' = Unused
    /\ anomalies' = Unused
    /\ UNCHANGED <<operational_data, threshold, locVars, fleetVars, effVars>>

\* process_location_data(location_data, calculation_options) once more: the
\* caller passes the same frame, as the first call left it.
ProcessLocationAgain ==
    /\ FirstCallDone /\ location_arg # Unused
    /\ first_ret' = ret
    /\ UNCHANGED serviceVars
    /\ ret' = NoResult
    /\ pc' = "sort"
    /\ location_data' = location_arg
    /\ location_is_arg' = TRUE
    /\ distances' = <<>>
    /\ UNCHANGED <<location_arg, calculation_options, sort_outcome>>
    /\ UNCHANGED <<anomVars, fleetVars, effVars>>

\* calculate_fleet_metrics(fleet_data, metric_type, aggregation_period) once more.
FleetMetricsAgain ==
    /\ FirstCallDone /\ fleet_data # Unused
    /\ first_ret' = ret
    /\ UNCHANGED serviceVars
    /\ ret' = NoResult
    /\ pc' = "validate"
    /\ metrics' = <<>>
    /\ UNCHANGED <<fleet_data, metric_type, aggregation_period>>
    /\ UNCHANGED <<anomVars, locVars, effVars>>

\* analyze_delivery_efficiency(delivery_data, efficiency_parameters) once more.
DeliveryEfficiencyAgain ==
    /\ FirstCallDone /\ delivery_data # Unused
    /\ first_ret' = ret
    /\ UNCHANGED serviceVars
    /\ ret' = NoResult
    /\ pc' = "delivery_stats"
    /\ delivery_stats' = <<>>
    /\ route_efficiency' = <<>>
    /\ scores' = <<>>
    /\ UNCHANGED <<delivery_data, efficiency_parameters, numpy_version>>
    /\ UNCHANGED <<anomVars, locVars, fleetVars>>

NextEngine ==
    \/ NextAnomaly
    \/ NextLocation
    \/ NextFleet
    \/ NextEfficiency
    \/ DetectAnomaliesAgain
    \/ ProcessLocationAgain
    \/ FleetMetricsAgain
    \/ DeliveryEfficiencyAgain

SpecEngine == InitEngine /\ [][NextEngine]_vars

----------------------------------------------------------------------------
(* Properties of the four functions together *)

SecondCallDone == pc = "done" /\ first_ret # NoResult

LocationReturned == pc = "done" /\ location_arg # Unused /\ ret.kind = "return"

\* C15 (as claimed): no returned result holds NaN or an infinity: every
\* speed, distance and acceleration of process_location_data, every
\* statistic of calculate_fleet_metrics and every statistic and score of
\* analyze_delivery_efficiency is a finite number.
C15_ReturnedValuesFinite ==
    /\ LocationReturned =>
          \A j \in 1..Len(ret.value.rows) :
              /\ IsFinite(ret.value.rows[j].speed)
              /\ IsFinite(ret.value.rows[j].distance)
              /\ IsFinite(ret.value.rows[j].acceleration)
    /\ FleetReturned =>
          LET st == ret.value.statistics
          IN  \A b \in DOMAIN st.mean :
                  /\ IsFinite(st.mean[b]) /\ IsFinite(st.median[b])
                  /\ IsFinite(st.min[b]) /\ IsFinite(st.max[b])
                  /\ ~st.std[b].nan
    /\ EfficiencyReturned =>
          /\ IsFinite(ret.value.delivery_statistics.avg_delivery_time)
          /\ IsFinite(ret.value.delivery_statistics.std_delivery_time.sqrt_of)
          /\ IsFinite(ret.value.delivery_statistics.on_time_percentage)
          /\ IsFinite(ret.value.route_efficiency.distance_utilization)
          /\ \A c \in ScoreColumns : IsFinite(ret.value.overall_efficiency_score[c])

\* C16: no step of any of the four functions changes the batch the caller
\* passed in: its rows, their order, its columns and its values stay as
\* they were, on the path that returns and on the path that raises.
C16_InputBatchUnchanged ==
    [][/\ location_arg' = location_arg
       /\ operational_data' = operational_data
       /\ fleet_data' = fleet_data
       /\ delivery_data' = delivery_data]_vars

\* A call that returned after writing its derived columns into its own
\* frame, the caller's batch still holding only what was passed in.
C16_Witness ==
    /\ LocationReturned
    /\ Len(location_arg.rows) = 2
    /\ {"time_diff", "speed", "distance", "acceleration"} \subseteq location_data.columns
    /\ {"time_diff", "speed", "distance", "acceleration"} \cap location_arg.columns = {}

VehiclesOfBatch == {location_arg.rows[i].vehicle_id : i \in 1..Len(location_arg.rows)}

\* C17 (as claimed): for a complete batch with samples of two or more
\* vehicles and remove_outliers enabled, process_location_data returns a
\* table with exactly the five output columns whose rows are distinct
\* samples of the input.
C17_MultiVehicleBatchReturnsSubset ==
    (/\ pc = "done"
     /\ IsCompleteBatch(location_arg)
     /\ Cardinality(VehiclesOfBatch) >= 2
     /\ DictGet(calculation_options, "remove_outliers", TRUE))
        => /\ ret.kind = "return"
           /\ ret.value.columns = OutputColumns
           /\ Len(ret.value.rows) <= Len(location_arg.rows)
           /\ \A j \in 1..Len(ret.value.rows) :
                 /\ \E i \in 1..Len(location_arg.rows) :
                        /\ location_arg.rows[i].idx = ret.value.rows[j].idx
                        /\ location_arg.rows[i].vehicle_id = ret.value.rows[j].vehicle_id
                        /\ location_arg.rows[i].timestamp = ret.value.rows[j].timestamp
                 /\ \A k \in 1..Len(ret.value.rows) :
                        ret.value.rows[k].idx = ret.value.rows[j].idx => k = j

\* A batch in which a sample of another vehicle lies strictly between two
\* samples of one vehicle in time.
InterleavedBatch ==
    LET rows == location_arg.rows
    IN  \E a, b, c \in 1..Len(rows) :
            /\ rows[a].timestamp < rows[b].timestamp
            /\ rows[b].timestamp < rows[c].timestamp
            /\ rows[a].vehicle_id = rows[c].vehicle_id
            /\ rows[a].vehicle_id # rows[b].vehicle_id

\* The distance the rule of the claim gives row i of the sorted frame: the
\* distance to the previous sample of the same vehicle (the predecessor
\* time_diff uses), 0 for a first sample.
RuleDistance(rows, i) ==
    LET j == PrevSameVehicle(rows, i)
    IN  IF j = 0 THEN Zero ELSE KmBetween(rows[i], rows[j])

\* C20 (as claimed): for a complete batch with interleaved vehicles, once
\* the distance step is over every sample has a distance, measured against
\* the preceding sample of its own vehicle in timestamp order, the same
\* predecessor its time difference refers to.
C20_DistanceAgainstSameVehiclePredecessor ==
    (/\ IsCompleteBatch(location_arg)
     /\ InterleavedBatch
     /\ pc \notin {"sort", "time_diff", "distances"})
        => /\ ret.kind \notin {"pending", "raise"}
           /\ Len(distances) = Len(sort_outcome)
           /\ \A i \in 1..Len(distances) : distances[i] = RuleDistance(sort_outcome, i)

-----------------------------------------------------------------------------
(* AnalyticsModel.store_metric and get_metrics_by_vehicle,                  *)
(* models/analyticsModel.py lines 105-140 and 209-251, on the               *)
(* fleet_metrics collection                                                 *)

MaxDocuments == 2

StoredVehicles == {"v1", "v2"}

StoredTypes == {"vehicle_speed", "idle_time"}

StoredTimestamps == {1, 2}

\* metric_data as the caller of store_metric passes it: the vehicle id is a
\* key of the data dictionary.
MetricData(v) == [value |-> 65, vehicle_id |-> v]

\* Lines 125-129: the document store_metric builds.
StoreMetricDocument(t, data, ts) == [metric_type |-> t, timestamp |-> ts, data |-> data]

\* A document that carries vehicle_id as a field of its own, the field the
\* compound index of lines 84-87 is built on.
IndexedDocument(t, v, ts) ==
    [metric_type |-> t, timestamp |-> ts, vehicle_id |-> v, data |-> [value |-> 65]]

Documents ==
    {StoreMetricDocument(t, MetricData(v), ts) :
        t \in StoredTypes, v \in StoredVehicles, ts \in StoredTimestamps}
    \cup {IndexedDocument(t, v, ts) :
        t \in StoredTypes, v \in StoredVehicles, ts \in StoredTimestamps}

TimeRanges == {[start |-> 1, end |-> 2], [start |-> 2, end |-> 2]}

MetricTypeLists == {<<>>} \cup {<<t>> : t \in StoredTypes}

\* Lines 221-231: the query get_metrics_by_vehicle builds; the metric_type
\* condition is present only for a non-empty list.
BuildQuery(vehicle_id, range, metric_types) ==
    LET base == [vehicle_id |-> vehicle_id,
                 timestamp |-> [gte |-> range.start, lte |-> range.end]]
    IN  IF metric_types # <<>>
        THEN base @@ [metric_type |-> {metric_types[i] : i \in 1..Len(metric_types)}]
        ELSE base

\* find(query): a document matches when its own field vehicle_id equals the
\* queried id (a document without that field does not match), its timestamp
\* lies in the closed range and its metric_type is one of the listed ones.
Matches(doc, q) ==
    /\ "vehicle_id" \in DOMAIN doc
    /\ doc.vehicle_id = q.vehicle_id
    /\ doc.timestamp >= q.timestamp.gte
    /\ doc.timestamp <= q.timestamp.lte
    /\ "metric_type" \in DOMAIN q => doc.metric_type \in q.metric_type

\* .sort('timestamp', ASCENDING): the matching documents by ascending
\* timestamp; the server is free in the order of equal timestamps.
CursorOrders(coll, q) ==
    LET hits == {i \in 1..Len(coll) : Matches(coll[i], q)}
        n == Cardinality(hits)
    IN  {o \in [1..n -> hits] :
            /\ \A a, b \in 1..n : a # b => o[a] # o[b]
            /\ \A a, b \in 1..n : a < b => coll[o[a]].timestamp <= coll[o[b]].timestamp}

\* Lines 240-249: the cursor as a DataFrame, one row per document; an empty
\* cursor gives an empty frame without columns.  (to_numeric with
\* errors='ignore' leaves the string and dict columns as they are.)
CursorFrame(coll, order) ==
    [columns |-> UNION {DOMAIN coll[order[k]] : k \in 1..Len(order)},
     rows |-> [k \in 1..Len(order) |-> coll[order[k]]]]

InitStore ==
    /\ pc = "idle"
    /\ ret = NoResult
    /\ first_ret = NoResult
    /\ metrics_collection = <<>>
    /\ query = <<>>
    /\ controller_pc = Unused /\ time_range = Unused /\ requested_metrics = Unused
    /\ fleet_performance = Unused /\ response = Unused /\ request = Unused
    /\ AnomalyIdle /\ LocationIdle /\ FleetIdle /\ EfficiencyIdle

\* collection.insert_one(document), as the unit test fills the collection
\* (tests/unit/analytics.test.py lines 141-142); the server adds the _id.
InsertOne ==
    /\ pc = "idle"
    /\ Len(metrics_collection) < MaxDocuments
    /\ \E doc \in Documents :
          metrics_collection' =
              Append(metrics_collection, doc @@ [_id |-> Len(metrics_collection) + 1])
    /\ UNCHANGED <<pc, ret, query>>
    /\ UNCHANGED <<controller_pc, time_range, requested_metrics, fleet_performance, response,
                   request>>
    /\ UNCHANGED <<anomVars, locVars, fleetVars, effVars, first_ret>>

\* Lines 117-140.  A metric_data that is no dict is refused with ValueError.
\* Otherwise the document is handed to insert_one together with a
\* write_concern keyword, which Collection.insert_one of pymongo (4.4.0,
\* line 9) does not take: the call raises TypeError before anything reaches
\* the server, and neither exception is a PyMongoError for line 139.
StoreMetric ==
    /\ pc = "idle"
    /\ \E is_dict \in BOOLEAN :
          ret' = IF ~is_dict
                 THEN Raised("ValueError", "Metric data must be a dictionary")
                 ELSE Raised("TypeError",
                             "insert_one() got an unexpected keyword argument 'write_concern'")
    /\ UNCHANGED <<pc, metrics_collection, query>>
    /\ UNCHANGED <<controller_pc, time_range, requested_metrics, fleet_performance, response,
                   request>>
    /\ UNCHANGED <<anomVars, locVars, fleetVars, effVars, first_ret>>

\* Lines 219-251.
GetMetricsByVehicle ==
    /\ pc = "idle"
    /\ \E v \in StoredVehicles, range \in TimeRanges, types \in MetricTypeLists :
          LET q == BuildQuery(v, range, types)
          IN  /\ query' = q
              /\ \E order \in CursorOrders(metrics_collection, q) :
                    ret' = Returned(CursorFrame(metrics_collection, order))
    /\ pc' = "done"
    /\ UNCHANGED metrics_collection
    /\ UNCHANGED <<controller_pc, time_range, requested_metrics, fleet_performance, response,
                   request>>
    /\ UNCHANGED <<anomVars, locVars, fleetVars, effVars, first_ret>>

NextStore == InsertOne \/ StoreMetric \/ GetMetricsByVehicle

SpecStore == InitStore /\ [][NextStore]_vars

\* The stored documents the claim expects back: those of the store_metric
\* shape whose data names the queried vehicle, of a listed type, inside the
\* time range.
ExpectedDocuments ==
    {i \in 1..Len(metrics_collection) :
        LET doc == metrics_collection[i]
        IN  /\ "vehicle_id" \in DOMAIN doc.data
            /\ doc.data.vehicle_id = query.vehicle_id
            /\ doc.metric_type \in query.metric_type
            /\ doc.timestamp >= query.timestamp.gte
            /\ doc.timestamp <= query.timestamp.lte}

\* C18 (as claimed): when every stored document has the shape store_metric
\* gives it (vehicle id inside data), get_metrics_by_vehicle(V, range, [T])
\* returns one row per stored document of type T of vehicle V inside the
\* range, all of vehicle V, by ascending timestamp.
C18_VehicleMetricsReturned ==
    (/\ pc = "done" /\ metrics_collection # Unused
     /\ "metric_type" \in DOMAIN query
     /\ \A i \in 1..Len(metrics_collection) : "vehicle_id" \notin DOMAIN metrics_collection[i])
        => /\ ret.kind = "return"
           /\ {ret.value.rows[k]._id : k \in 1..Len(ret.value.rows)} = ExpectedDocuments
           /\ Len(ret.value.rows) = Cardinality(ExpectedDocuments)
           /\ \A k \in 1..Len(ret.value.rows) :
                 ret.value.rows[k].data.vehicle_id = query.vehicle_id
           /\ \A a, b \in 1..Len(ret.value.rows) :
                 a < b => ret.value.rows[a].timestamp <= ret.value.rows[b].timestamp

-----------------------------------------------------------------------------
(* get_fleet_analytics with handle_exceptions,                              *)
(* controllers/analyticsController.py lines 41-117                          *)

NoneValue == [type |-> "NoneType"]

\* What time_range.get('start') and .get('end') can hold: an ISO 8601
\* string, another string, None for an absent key, or a datetime object
\* (as TEST_TIME_RANGE of the unit tests has).
TimeArgs ==
    {[type |-> "str", iso |-> TRUE, at |-> t] : t \in {0, 7}}
    \cup {[type |-> "str", iso |-> FALSE], NoneValue, [type |-> "datetime", at |-> 0]}

TimeRangeArgs == [start : TimeArgs, end : TimeArgs]

\* The argument metrics: None or a list of metric names.
ListOf(items) == [type |-> "list", items |-> items]

MetricsArgs == {NoneValue, ListOf(<<>>), ListOf(<<"vehicle_speed">>)}

\* Lines 75-76: datetime.fromisoformat accepts an ISO string, raises
\* ValueError for another string and TypeError for anything that is no string.
FromIsoFormat(x) ==
    IF x.type # "str" THEN Raised("TypeError", "fromisoformat: argument must be str")
    ELSE IF ~x.iso THEN Raised("ValueError", "Invalid isoformat string")
    ELSE Returned(x.at)

\* Lines 85-86.
DefaultMetrics == <<"speed", "distance", "fuel_consumption", "idle_time">>

MetricsOrDefault(m) ==
    IF m.type = "NoneType" THEN ListOf(DefaultMetrics)
    ELSE IF m.items = <<>> THEN ListOf(DefaultMetrics)
    ELSE m

\* One entry of the dict get_fleet_performance returns (model lines 291-299).
PerformanceEntry ==
    [average |-> 65, maximum |-> 80, minimum |-> 50, standard_deviation |-> 5,
     sample_size |-> 1000]

\* The dicts get_fleet_performance can return for the listed metrics: an
\* entry for each listed metric type that has documents in the range.  A
\* dict is held as the sequence of its (key, value) items.
PerformanceDicts(listed) ==
    {[k \in 1..Len(TruePositions(found, 1)) |->
         <<listed[TruePositions(found, 1)[k]], PerformanceEntry>>] :
        found \in [1..Len(listed) -> BOOLEAN]}

DictKeys(d) == {d[k][1] : k \in 1..Len(d)}

DictValue(d, key) == LET k == CHOOSE k \in 1..Len(d) : d[k][1] = key IN d[k][2]

StatNames == <<"average", "maximum", "minimum", "standard_deviation", "sample_size">>

\* Line 96: pd.DataFrame(fleet_performance), one column per metric type and
\* one row per statistic.
PerformanceFrame(fp) ==
    [columns |-> DictKeys(fp),
     rows |-> IF fp = <<>> THEN <<>>
              ELSE [k \in 1..Len(StatNames) |->
                       [idx |-> StatNames[k]]
                       @@ [m \in DictKeys(fp) |-> DictValue(fp, m)[StatNames[k]]]]]

JSONResponse(content) == [kind |-> "JSONResponse", status_code |-> 200, body |-> content]

HTTPException(code, detail) == [kind |-> "HTTPException", status_code |-> code, detail |-> detail]

\* Line 259.
valid_report_types == {"fleet_performance", "delivery_efficiency", "resource_utilization"}

\* Line 207: the keys get_delivery_analytics requires.
RequiredEfficiencyKeys == {"target_on_time", "target_utilization"}

\* A request names its endpoint and carries the arguments only that
\* endpoint has: the keys of efficiency_parameters, the report_type.
Request(endpoint, keys, type) ==
    [endpoint |-> endpoint, efficiency_keys |-> keys, report_type |-> type]

Requests ==
    {Request(e, {}, "") : e \in {"get_fleet_analytics", "get_vehicle_analytics"}}
    \cup {Request("get_delivery_analytics", ks, "") : ks \in SUBSET RequiredEfficiencyKeys}
    \cup {Request("generate_analytics_report", {}, t) :
              t \in valid_report_types \cup {"summary"}}

TakesParsedTimeRange(e) == e \in {"get_fleet_analytics", "get_vehicle_analytics"}

\* A time range of two ISO strings, for the endpoints that do not parse it.
IsoTimeRange ==
    [start |-> [type |-> "str", iso |-> TRUE, at |-> 0],
     end   |-> [type |-> "str", iso |-> TRUE, at |-> 7]]

\* The first statement of each endpoint.
FirstStep(e) ==
    CASE e = "get_fleet_analytics" -> "time_range"
      [] e = "get_vehicle_analytics" -> "vehicle_time_range"
      [] e = "get_delivery_analytics" -> "parameters"
      [] e = "generate_analytics_report" -> "report_type"

InitRequest ==
    /\ pc = "endpoint"
    /\ ret = NoResult
    /\ first_ret = NoResult
    /\ request \in Requests
    /\ controller_pc = FirstStep(request.endpoint)
    /\ IF TakesParsedTimeRange(request.endpoint)
       THEN time_range \in TimeRangeArgs
       ELSE time_range = IsoTimeRange
    /\ IF request.endpoint = "get_fleet_analytics"
       THEN requested_metrics \in MetricsArgs
       ELSE requested_metrics = NoneValue
    /\ fleet_performance = <<>>
    /\ response = NoResult
    /\ metrics_collection = Unused /\ query = Unused
    /\ AnomalyIdle /\ LocationIdle /\ FleetIdle /\ EfficiencyIdle

InitService == InitRequest \/ InitFleetOf(MaxEngineRows)

engineVars == <<anomVars, locVars, effVars, first_ret, metrics_collection, query>>

\* Lines 74-82: a time range that does not parse raises HTTPException(400)
\* inside the endpoint, that is, inside the try of handle_exceptions.
ValidateTimeRange ==
    /\ controller_pc = "time_range"
    /\ IF FromIsoFormat(time_range.start).kind = "return"
          /\ FromIsoFormat(time_range.end).kind = "return"
       THEN controller_pc' = "performance" /\ response' = response
       ELSE /\ controller_pc' = "handler"
            /\ response' = HTTPException(400, "Invalid time range format")
    /\ UNCHANGED <<pc, ret, time_range, requested_metrics, fleet_performance, request>>
    /\ UNCHANGED <<engineVars, fleetVars>>

\* Lines 85-92: the storage model returns its dict, or fails with the
\* Exception of model line 303.
RetrieveFleetPerformance ==
    /\ controller_pc = "performance"
    /\ requested_metrics' = MetricsOrDefault(requested_metrics)
    /\ \/ /\ fleet_performance' \in PerformanceDicts(requested_metrics'.items)
          /\ controller_pc' = "fleet_metrics"
          /\ response' = response
       \/ /\ fleet_performance' = fleet_performance
          /\ controller_pc' = "handler"
          /\ response' = Raised("Exception", "Failed to calculate fleet performance")
    /\ UNCHANGED <<pc, ret, time_range, request>>
    /\ UNCHANGED <<engineVars, fleetVars>>

\* Lines 95-99: the call of calculate_fleet_metrics, with the literal
\* arguments metric_type='performance' and aggregation_period='1D'.
CallFleetMetrics ==
    /\ controller_pc = "fleet_metrics"
    /\ fleet_data' = PerformanceFrame(fleet_performance)
    /\ metric_type' = "performance"
    /\ aggregation_period' = "1D"
    /\ metrics' = <<>>
    /\ pc' = "validate"
    /\ ret' = NoResult
    /\ controller_pc' = "awaiting"
    /\ UNCHANGED <<time_range, requested_metrics, fleet_performance, response, request>>
    /\ UNCHANGED engineVars

\* Lines 95-117, once calculate_fleet_metrics is over.  Its exception leaves
\* the endpoint body.  Had it returned, lines 102-115 would take np.mean,
\* np.median and np.std of each statistics dict: numpy either refuses a
\* dict (TypeError) or the response is built.
BuildResponse ==
    /\ controller_pc = "awaiting" /\ pc = "done"
    /\ IF ret.kind = "raise"
       THEN controller_pc' = "handler" /\ response' = ret
       ELSE \/ /\ controller_pc' = "done"
               /\ response' = JSONResponse(
                     [time_range |-> [start |-> time_range.start.at, end |-> time_range.end.at],
                      fleet_performance |-> fleet_performance,
                      fleet_metrics |-> ret.value,
                      summary_statistics |-> DOMAIN ret.value.statistics])
            \/ /\ controller_pc' = "handler"
               /\ response' = Raised("TypeError", "unsupported operand type(s)")
    /\ UNCHANGED <<pc, ret, time_range, requested_metrics, fleet_performance, request>>
    /\ UNCHANGED <<engineVars, fleetVars>>

\* Lines 138-146 of get_vehicle_analytics: the same parsing of the time range.
ValidateVehicleTimeRange ==
    /\ controller_pc = "vehicle_time_range"
    /\ IF FromIsoFormat(time_range.start).kind = "return"
          /\ FromIsoFormat(time_range.end).kind = "return"
       THEN controller_pc' = "body" /\ response' = response
       ELSE /\ controller_pc' = "handler"
            /\ response' = HTTPException(400, "Invalid time range format")
    /\ UNCHANGED <<pc, ret, time_range, requested_metrics, fleet_performance, request>>
    /\ UNCHANGED <<engineVars, fleetVars>>

\* Lines 206-211 of get_delivery_analytics.
ValidateEfficiencyParameters ==
    /\ controller_pc = "parameters"
    /\ IF RequiredEfficiencyKeys \subseteq request.efficiency_keys
       THEN controller_pc' = "body" /\ response' = response
       ELSE /\ controller_pc' = "handler"
            /\ response' = HTTPException(400, "Missing required efficiency parameters")
    /\ UNCHANGED <<pc, ret, time_range, requested_metrics, fleet_performance, request>>
    /\ UNCHANGED <<engineVars, fleetVars>>

\* Lines 258-264 of generate_analytics_report.
ValidateReportType ==
    /\ controller_pc = "report_type"
    /\ IF request.report_type \in valid_report_types
       THEN controller_pc' = "body" /\ response' = response
       ELSE /\ controller_pc' = "handler"
            /\ response' = HTTPException(400, "Invalid report type. Must be one of: ...")
    /\ UNCHANGED <<pc, ret, time_range, requested_metrics, fleet_performance, request>>
    /\ UNCHANGED <<engineVars, fleetVars>>

\* The keys of response_data (lines 176-185, 227-239, 279-289).
ResponseKeys(e) ==
    CASE e = "get_vehicle_analytics" ->
            {"vehicle_id", "time_range", "performance_metrics", "hourly_statistics"}
      [] e = "get_delivery_analytics" ->
            {"time_range", "efficiency_analysis", "delivery_patterns"}
      [] e = "generate_analytics_report" ->
            {"report_type", "generated_at", "report_data", "metadata"}

\* Lines 148-185, 213-241, 266-291: what follows the validation in the
\* three other endpoints.  The storage model and the data processing it
\* calls either raise, and the exception leaves the body, or response_data
\* is built and returned.
RunEndpointBody ==
    /\ controller_pc = "body"
    /\ \/ /\ controller_pc' = "done"
          /\ response' = JSONResponse([k \in ResponseKeys(request.endpoint) |-> NoneValue])
       \/ /\ controller_pc' = "handler"
          /\ response' \in {Raised("Exception", "Failed to retrieve vehicle metrics"),
                            Raised("ValueError", "Error processing data")}
    /\ UNCHANGED <<pc, ret, time_range, requested_metrics, fleet_performance, request>>
    /\ UNCHANGED <<engineVars, fleetVars>>

\* Lines 43-51: whatever exception left the endpoint body, the
\* HTTPException(400) included, is replaced by HTTPException(500).
HandleExceptions ==
    /\ controller_pc = "handler"
    /\ response' = HTTPException(500, <<"Analytics operation failed: ", response>>)
    /\ controller_pc' = "done"
    /\ UNCHANGED <<pc, ret, time_range, requested_metrics, fleet_performance, request>>
    /\ UNCHANGED <<engineVars, fleetVars>>

NextService ==
    \/ ValidateTimeRange
    \/ ValidateVehicleTimeRange
    \/ ValidateEfficiencyParameters
    \/ ValidateReportType
    \/ RunEndpointBody
    \/ RetrieveFleetPerformance
    \/ CallFleetMetrics
    \/ BuildResponse
    \/ HandleExceptions
    \/ NextFleet

SpecService == InitService /\ [][NextService]_vars

\* A request that ended after the storage model returned performance data
\* for a time range given as two ISO strings.
RequestServed ==
    /\ controller_pc = "done"
    /\ FromIsoFormat(time_range.start).kind = "return"
    /\ FromIsoFormat(time_range.end).kind = "return"
    /\ fleet_data # Unused
    /\ fleet_performance # <<>>

\* C19 (as claimed): get_fleet_analytics with a valid time range and a
\* metric list, the storage model having returned fleet performance data,
\* ends with status 200 and a body holding fleet_performance,
\* fleet_metrics and summary_statistics.
C19_FleetAnalyticsAnswers200 ==
    RequestServed =>
        /\ response.kind = "JSONResponse"
        /\ response.status_code = 200
        /\ {"fleet_performance", "fleet_metrics", "summary_statistics"}
               \subseteq DOMAIN response.body

-----------------------------------------------------------------------------
(* process_location_data, lines 69-77: outlier rejection                    *)

\* |z| >= t for t > 0, with |z| held as z^2.  NaN >= t is False.
AtOrAbove(zsq, t) == ~zsq.nan /\ zsq.num >= t * t * zsq.den

RemovesOutliers ==
    location_arg # Unused /\ DictGet(calculation_options, "remove_outliers", TRUE)

\* The threshold the caller supplied, 3 when the option is absent.
CallerThreshold == DictGet(calculation_options, "outlier_z_threshold", 3)

SpeedZ(rows) == AbsZScoreOfFloats([i \in 1..Len(rows) |-> rows[i].speed])

\* C21 (as claimed): the outlier step keeps exactly the samples whose |z|
\* of speed over the whole batch is not at or above the caller's
\* outlier_z_threshold (3 when not supplied).
C21_DropsAtOrAboveCallerThreshold ==
    [][(pc = "outliers" /\ pc' = "derived" /\ RemovesOutliers) =>
          {location_data'.rows[k].idx : k \in 1..Len(location_data'.rows)}
          = {location_data.rows[i].idx :
                i \in {j \in 1..Len(location_data.rows) :
                          ~AtOrAbove(SpeedZ(location_data.rows)[j], CallerThreshold)}}]_vars

\* The outlier step of a call on a complete batch took at least one sample out.
SampleRemoved ==
    /\ RemovesOutliers
    /\ IsCompleteBatch(location_arg)
    /\ pc \in {"derived", "return", "except", "done"}
    /\ Len(location_data.rows) < Len(location_arg.rows)

\* Position, in the sorted frame, of the sample with row label x.
SortedPos(x) == CHOOSE p \in 1..Len(sort_outcome) : sort_outcome[p].idx = x

\* C22 (as claimed): a call whose outlier step removed a sample still
\* returns, and each returned sample carries the speed and the distance
\* computed for that very sample before the filtering.
C22_ReturnsAfterRemoval ==
    (pc = "done" /\ SampleRemoved) =>
        /\ ret.kind = "return"
        /\ \A j \in 1..Len(ret.value.rows) :
              LET p == SortedPos(ret.value.rows[j].idx)
              IN  /\ ret.value.rows[j].speed = RuleSpeed(sort_outcome, p)
                  /\ ret.value.rows[j].distance = distances[p]

\* The acceleration the rule of the claim gives row i of the retained
\* rows: speed difference to the previous retained sample of the vehicle
\* over the time between the two.
RuleAcceleration(rows, i) ==
    LET j == PrevSameVehicle(rows, i)
    IN  FDiv(FSub(rows[i].speed, rows[j].speed),
             Frac(rows[i].timestamp - rows[j].timestamp, 1))

\* C23 (as claimed): with outlier rejection, a call that removed a sample
\* still yields accelerations, and the acceleration of every returned
\* sample that has an earlier returned sample of its vehicle is computed
\* against that sample, in speed and in time.
C23_AccelerationOverRetainedSamples ==
    /\ (pc = "done" /\ SampleRemoved) => ret.kind = "return"
    /\ (pc = "done" /\ RemovesOutliers /\ IsCompleteBatch(location_arg)
          /\ ret.kind = "return") =>
          \A j \in 1..Len(ret.value.rows) :
              PrevSameVehicle(ret.value.rows, j) # 0 =>
                  ret.value.rows[j].acceleration = RuleAcceleration(ret.value.rows, j)

\* C24 (as claimed): after the timestamp sort of line 49, samples of one
\* vehicle with equal timestamps stand in their input order (row labels
\* are input positions), so each sample's predecessor is fixed by the input.
C24_SortKeepsInputOrderOfTies ==
    (location_arg # Unused /\ IsCompleteBatch(location_arg) /\ pc = "time_diff") =>
        \A p, q \in 1..Len(location_data.rows) :
            (/\ p < q
             /\ location_data.rows[p].vehicle_id = location_data.rows[q].vehicle_id
             /\ location_data.rows[p].timestamp = location_data.rows[q].timestamp)
                => location_data.rows[p].idx < location_data.rows[q].idx

-----------------------------------------------------------------------------
(* calculate_fleet_metrics, lines 109-129: the statistics of a bucket       *)

\* The values of each vehicle of bucket b, one sequence per vehicle.
PerVehicleValues(b) ==
    LET vs == VehiclesOfBin(fleet_data.rows, aggregation_period, b)
    IN  [j \in 1..Len(vs) |->
            GroupValues(fleet_data.rows, aggregation_period, <<b, vs[j]>>)]

PerVehicle(b, F(_)) == [j \in 1..Len(PerVehicleValues(b)) |-> F(PerVehicleValues(b)[j])]

MeanOfValues(g) == FMean(ToFloats(g))

MedianOfValues(g) == FMedian(ToFloats(g))

MinOfValues(g) == FMin(ToFloats(g))

MaxOfValues(g) == FMax(ToFloats(g))

\* C25 (as claimed): of every bucket of a returned result, mean is the
\* mean of the per-vehicle means, median the mean of the per-vehicle
\* medians, min the least per-vehicle minimum, max the greatest
\* per-vehicle maximum, and std (where every vehicle of the bucket has
\* two samples or more) the mean of the per-vehicle standard deviations.
C25_BucketStatisticsFromVehicleLevel ==
    FleetReturned =>
        LET st == ret.value.statistics
        IN  \A b \in DOMAIN st.mean :
                /\ st.mean[b] = FMean(PerVehicle(b, MeanOfValues))
                /\ st.median[b] = FMean(PerVehicle(b, MedianOfValues))
                /\ st.min[b] = FMin(PerVehicle(b, MinOfValues))
                /\ st.max[b] = FMax(PerVehicle(b, MaxOfValues))
                /\ (\A j \in 1..Len(PerVehicleValues(b)) : Len(PerVehicleValues(b)[j]) >= 2)
                      => st.std[b] = [nan |-> FALSE,
                                      mean_of_sqrt |-> PerVehicle(b, SampleVariance)]

\* Variance with denominator N: 0 for a single value.
PopulationVariance(ints) == Frac(ZDen(ints), Len(ints) * Len(ints))

\* C26 (as claimed): the standard deviation of each (bucket, vehicle)
\* group behind the reported std is the population one, 0 for a group of
\* a single sample, so the std of a bucket is never undefined.
C26_PopulationStandardDeviation ==
    FleetReturned =>
        \A b \in DOMAIN ret.value.statistics.std :
            ret.value.statistics.std[b] =
                [nan |-> FALSE, mean_of_sqrt |-> PerVehicle(b, PopulationVariance)]

DaysPerWeek == 7

DaysOfFebruary == 28

\* Length of the period that holds the samples of the model, which all
\* lie in February 2021.
PeriodSeconds(period) ==
    CASE period = "1H" -> SecondsPerHour
      [] period = "1D" -> SecondsPerDay
      [] period = "1W" -> DaysPerWeek * SecondsPerDay
      [] period = "1M" -> DaysOfFebruary * SecondsPerDay

\* C27 (as claimed): the keys of a returned result are period starts:
\* every sample lies in [s, s + period) for a reported key s, and every
\* reported key s has a sample in [s, s + period).
C27_BucketKeyedByPeriodStart ==
    FleetReturned =>
        LET keys == DOMAIN ret.value.statistics.mean
            len == PeriodSeconds(aggregation_period)
            within(i, s) == /\ s <= fleet_data.rows[i].timestamp
                            /\ fleet_data.rows[i].timestamp < s + len
        IN  /\ \A i \in 1..Len(fleet_data.rows) : \E s \in keys : within(i, s)
            /\ \A s \in keys : \E i \in 1..Len(fleet_data.rows) : within(i, s)

\* The (bin, vehicle) pair of the i-th input sample.
GroupOfSample(i) ==
    <<BinLabel(fleet_data.rows[i].timestamp, aggregation_period),
      fleet_data.rows[i].vehicle_id>>

\* C28: in a returned result every input sample is a member of exactly one
\* (bucket, vehicle_id) group, every group holds exactly the samples of its
\* bucket and vehicle (none dropped, none counted twice), and every
\* statistic has an entry for a bucket exactly when an input sample falls
\* in it: no bucket without samples is emitted.
C28_SamplesPartitionedNoEmptyBucket ==
    FleetReturned =>
        LET rows == fleet_data.rows
            keys == GroupKeys(rows, aggregation_period)
        IN  /\ \A i \in 1..Len(rows) :
                   Cardinality({k \in keys : k = GroupOfSample(i)}) = 1
            /\ \A k \in keys :
                   Len(GroupValues(rows, aggregation_period, k)) =
                       Cardinality({i \in 1..Len(rows) : GroupOfSample(i) = k})
            /\ \A name \in DOMAIN ret.value.statistics :
                   /\ \A b \in DOMAIN ret.value.statistics[name] :
                          SampleCount(rows, aggregation_period, b) >= 1
                   /\ \A i \in 1..Len(rows) :
                          GroupOfSample(i)[1] \in DOMAIN ret.value.statistics[name]

\* A returned daily result for samples of two vehicles that share a bucket
\* and leave whole days without a sample between two reported buckets.
C28_Witness ==
    /\ FleetReturned
    /\ aggregation_period = "1D"
    /\ \E i, j \in 1..Len(fleet_data.rows) :
           /\ i # j
           /\ GroupOfSample(i)[1] = GroupOfSample(j)[1]
           /\ GroupOfSample(i)[2] # GroupOfSample(j)[2]
    /\ \E b1, b2 \in DOMAIN ret.value.statistics.mean :
           /\ b2 - b1 > SecondsPerDay
           /\ \A b \in DOMAIN ret.value.statistics.mean : b <= b1 \/ b >= b2

----------------------------------------------------------------------------
(* analyze_delivery_efficiency, lines 166-186: the overall score *)

\* A batch of two records that differ in each scored feature: the z-scores
\* of every feature are -1 and 1, so the mean of their absolute values is 1
\* and the mean of the values themselves is 0.
TwoRecordsAllFeaturesDiffer ==
    /\ Len(delivery_data) = 2
    /\ \A c \in ScoreColumns :
           delivery_data[1][ScoredFeature(c)] # delivery_data[2][ScoredFeature(c)]

\* 100 * mean([on_time_percentage / 100, distance_utilization / 100, 1 - m])
\* to two decimals, for a mean m of absolute z-scores.
ScoreWithMeanAbsZ(m) ==
    Round2(FMul(FDiv(FAdd(FAdd(FDiv(OnTimePercentage(delivery_data), Frac(100, 1)),
                               FDiv(DistanceUtilization(delivery_data), Frac(100, 1))),
                          FSub(Frac(1, 1), m)),
                     Frac(3, 1)),
                Frac(100, 1)))

\* The value reported as the score is the one computed from the mean of
\* the absolute z-scores, for the batches where that mean is 1.
ScoreUsesMeanOfAbsolute ==
    (EfficiencyReturned /\ TwoRecordsAllFeaturesDiffer /\ AllPlannedPositive) =>
        \A c \in ScoreColumns :
            ret.value.overall_efficiency_score[c] = ScoreWithMeanAbsZ(Frac(1, 1))

\* C29 (as claimed): every call with a batch of at least one record
\* returns, its overall_efficiency_score is a single number and not a
\* table with one entry per score column, and the number is 100 times the
\* mean of on_time_percentage/100, distance utilization/100 and 1 minus the
\* mean of the absolute z-scores of the three features.
C29_ScalarScoreFromMeanAbsoluteZ ==
    (pc = "done" /\ delivery_data # Unused /\ Len(delivery_data) >= 1) =>
        /\ ret.kind = "return"
        /\ DOMAIN ret.value.overall_efficiency_score # ScoreColumns
        /\ ScoreUsesMeanOfAbsolute

-----------------------------------------------------------------------------
(* The four endpoints under handle_exceptions *)

\* The request is one its endpoint rejects in its validation.
ValidationRejects ==
    CASE TakesParsedTimeRange(request.endpoint) ->
            \/ FromIsoFormat(time_range.start).kind # "return"
            \/ FromIsoFormat(time_range.end).kind # "return"
      [] request.endpoint = "get_delivery_analytics" ->
            ~(RequiredEfficiencyKeys \subseteq request.efficiency_keys)
      [] request.endpoint = "generate_analytics_report" ->
            request.report_type \notin valid_report_types

ValidationMessage ==
    CASE TakesParsedTimeRange(request.endpoint) -> "Invalid time range format"
      [] request.endpoint = "get_delivery_analytics" ->
            "Missing required efficiency parameters"
      [] request.endpoint = "generate_analytics_report" ->
            "Invalid report type. Must be one of: ..."

RequestOver == controller_pc = "done" /\ request # Unused

\* C30 (as claimed): a request rejected by the validation of its endpoint
\* ends with an HTTPException of status 400 carrying the validation
\* message, and status 500 is the outcome only of requests that passed
\* the validation.
C30_ValidationRejectionIs400 ==
    RequestOver =>
        /\ ValidationRejects =>
               /\ response.kind = "HTTPException"
               /\ response.status_code = 400
               /\ response.detail = ValidationMessage
        /\ response.status_code = 500 => ~ValidationRejects

====
